---- MODULE Spec2Model ----
(***************************************************************************)
(* A model of the export handlers of src/app.py (Flask): the timecode      *)
(* conversions, the interval adjustment and the record-timeline layout of  *)
(* export_combined (EDL and SRT), and export_edl.                          *)
(*                                                                         *)
(* Seconds (Python floats) are modelled as exact fixed-point numbers: a    *)
(* record [f, t] stands for (f + t / Ticks) / 60 seconds, with 0 <= t <    *)
(* Ticks.  One unit of f is one frame at 60 fps; with Ticks = 10^8 the     *)
(* code's epsilon of 1e-9 s is exactly 6 ticks.  Float rounding error of   *)
(* the arithmetic itself is not modelled.                                  *)
(***************************************************************************)
EXTENDS Integers, Sequences, FiniteSets, TLC

\* ------------------------------------------------------------------ bounds

\* Longest scene_pks list a request carries.
MaxPks == 2

\* Largest hours field of the timecodes converted on their own.
MaxHours == 2

\* Most blocks in a buffer given to GPMFParser, before its tail.
MaxBlocks == 2

\* The longest list of scenes given to ThumbnailGrid.load_scenes.
MaxScenes == 4

\* The most rows selected for a continuous play of qtapp.
MaxSelected == 3

\* The most queued play_next_signal emissions still pending when the user
\* presses a button of qtapp.
MaxPending == 1

\* video_preview_app: the rows that populate_scene_table puts in the table
MaxRows == 2

\* VideoPlayer: the videos loaded one after the other
MaxLoads == 2

\* VideoPlayer: the greatest start of a playback range, in ms
MaxStart == 1

\* EditablePandasModel: the records of the frame
MaxRecords == 3

\* EditablePandasModel: the greatest value of the edited column
MaxValue == 1

\* ------------------------------------------------- fixed-point float seconds

\* Ticks per 1/60 s: 1e-9 s = 6 ticks.
Ticks == 100000000

T(f, t) == [f |-> f, t |-> t]

Zero == T(0, 0)

\* n seconds and k frames at 60 fps
Sec(n, k) == T(n * 60 + k, 0)

TAdd(a, b) ==
    LET s == a.t + b.t
    IN  IF s >= Ticks THEN T(a.f + b.f + 1, s - Ticks) ELSE T(a.f + b.f, s)

TSub(a, b) ==
    LET d == a.t - b.t
    IN  IF d < 0 THEN T(a.f - b.f - 1, d + Ticks) ELSE T(a.f - b.f, d)

TLt(a, b) == a.f < b.f \/ (a.f = b.f /\ a.t < b.t)

TLe(a, b) == ~TLt(b, a)

TMax(a, b) == IF TLt(a, b) THEN b ELSE a

TMin(a, b) == IF TLt(b, a) THEN b ELSE a

TAbs(a) == IF TLt(a, Zero) THEN TSub(Zero, a) ELSE a

\* a / 2
THalf(a) == T(a.f \div 2, ((a.f % 2) * Ticks + a.t) \div 2)

\* epsilon = 1e-9
epsilon == T(0, 6)

edl_frame_rate == 60

source_frame_rate == 60

DEFAULT_FRAME_RATE == 30

\* ------------------------------------------------------------- timecodes

\* A stored timecode value.  kind "tc" is a string of four integer fields
\* H:M:S:F; the other kinds are what the columns also hold: NULL ("none"),
\* '' ("empty"), a string without four fields ("fields", e.g. 'bad'), four
\* fields that are not all integers ("nonint", e.g. 'aa:bb:cc:dd'), and four
\* integer fields of which one has more than 308 digits ("huge").
Tc(h, m, s, f) == [kind |-> "tc", h |-> h, m |-> m, s |-> s, f |-> f]

BadTc(kind) == [kind |-> kind, h |-> 0, m |-> 0, s |-> 0, f |-> 0]

TcNone == BadTc("none")

TcEmpty == BadTc("empty")

TcFields == BadTc("fields")

TcNonInt == BadTc("nonint")

TcHuge == BadTc("huge")

\* int / float and int + float raise OverflowError for an int beyond the
\* float range; timecode_to_seconds catches ValueError and IndexError only.
timecode_raises(timecode) == timecode.kind = "huge"

\* timecode_to_seconds at 30 frames per second whatever the frame rate given.
timecode_to_seconds_at_30_fps(timecode, frame_rate) ==
    IF timecode.kind # "tc" THEN Zero
    ELSE T((timecode.h * 3600 + timecode.m * 60 + timecode.s) * 60 + timecode.f * 2, 0)

timecode_to_seconds(timecode, frame_rate) ==
    IF timecode.kind \in {"none", "empty"} THEN Zero
    ELSE IF timecode.kind = "fields" THEN Zero
    ELSE IF timecode.kind = "nonint" THEN Zero
    ELSE T((timecode.h * 3600 + timecode.m * 60 + timecode.s) * 60
             + timecode.f * (60 \div frame_rate), 0)

\* int(round(x)) of x = total_seconds * frame_rate: Python rounds a tie to
\* the even integer.
RoundFrames(sec, frame_rate) ==
    LET k   == 60 \div frame_rate
        q   == sec.f \div k
        num == (sec.f % k) * Ticks + sec.t
        den == k * Ticks
    IN  IF 2 * num > den THEN q + 1
        ELSE IF 2 * num = den THEN q + (q % 2)
        ELSE q

seconds_to_timecode(total_seconds, frame_rate) ==
    IF TLt(total_seconds, Zero) THEN Tc(0, 0, 0, 0)
    ELSE LET total_frames      == RoundFrames(total_seconds, frame_rate)
             frames            == total_frames % frame_rate
             total_seconds_int == total_frames \div frame_rate
             seconds           == total_seconds_int % 60
             total_minutes     == total_seconds_int \div 60
             minutes           == total_minutes % 60
             hours             == total_minutes \div 60
         IN  Tc(hours, minutes, seconds, frames)

seconds_to_edl_timecode(total_seconds, frame_rate) ==
    seconds_to_timecode(total_seconds, frame_rate)

\* The text HH:MM:SS,mmm as its four numbers.
SrtTc(h, m, s, ms) == [h |-> h, m |-> m, s |-> s, ms |-> ms]

\* int(round((total_seconds % 1) * 1000)): one millisecond is 6000000 ticks,
\* and 10^8 = 16 * 6000000 + 4000000.
RoundMillis(sec) ==
    LET fs  == sec.f % 60
        r   == fs * 4000000 + sec.t
        q   == 16 * fs + (r \div 6000000)
        rem == r % 6000000
    IN  IF 2 * rem > 6000000 THEN q + 1
        ELSE IF 2 * rem = 6000000 THEN q + (q % 2)
        ELSE q

seconds_to_srt_timecode(total_seconds) ==
    IF TLt(total_seconds, Zero) THEN SrtTc(0, 0, 0, 0)
    ELSE LET milliseconds      == RoundMillis(total_seconds)
             total_seconds_int == total_seconds.f \div 60
             seconds           == total_seconds_int % 60
             total_minutes     == total_seconds_int \div 60
             minutes           == total_minutes % 60
             hours             == total_minutes \div 60
         IN  SrtTc(hours, minutes, seconds, milliseconds)

\* -------------------------------------------------------------- database

\* duration_seconds of a video: NULL or a float
NoDuration == [known |-> FALSE, sec |-> Zero]

Duration(sec) == [known |-> TRUE, sec |-> sec]

\* The rows of the scenes query of both export handlers (scenes JOIN videos),
\* for the scenes whose id is in ids.
JoinedRows(d, ids) ==
    { [scene_pk         |-> id,
       video_id         |-> d.scenes[id].video_id,
       scene_id         |-> d.scenes[id].scene_id,
       start_timecode   |-> d.scenes[id].start_timecode,
       end_timecode     |-> d.scenes[id].end_timecode,
       video_filename   |-> d.videos[d.scenes[id].video_id].filename,
       timecode_offset  |-> d.videos[d.scenes[id].video_id].timecode_offset,
       duration_seconds |-> d.videos[d.scenes[id].video_id].duration_seconds]
      : id \in { x \in DOMAIN d.scenes : x \in ids
                                         /\ d.scenes[x].video_id \in DOMAIN d.videos } }

\* ORDER BY: the rows of S as a sequence of ascending key; rows of equal key
\* in rowid order.
RECURSIVE OrderByKey(_, _)
OrderByKey(S, key) ==
    IF S = {} THEN << >>
    ELSE LET m == CHOOSE x \in S : \A y \in S :
                      key[x] < key[y] \/ (key[x] = key[y] /\ x.rowid <= y.rowid)
         IN  <<m>> \o OrderByKey(S \ {m}, key)

Range(seq) == { seq[k] : k \in 1..Len(seq) }

\* CASE WHEN s.id = pk0 THEN 0 WHEN s.id = pk1 THEN 1 ... ELSE 999999 END:
\* the first WHEN that matches decides.
order_case(scene_pks, id) ==
    IF id \in Range(scene_pks)
    THEN (CHOOSE k \in 1..Len(scene_pks) :
              scene_pks[k] = id /\ \A j \in 1..(k - 1) : scene_pks[j] # id) - 1
    ELSE 999999

WithRowid(S) == { [rowid |-> r.scene_pk, row |-> r] : r \in S }

Rows(seq) == [k \in 1..Len(seq) |-> seq[k].row]


\* The scenes query with export_edl's ORDER BY s.video_id, s.scene_id.
combined_scenes_query_by_video(d, scene_pks) ==
    LET S == WithRowid(JoinedRows(d, Range(scene_pks)))
    IN  Rows(OrderByKey(S, [x \in S |-> x.row.video_id * 1000 + x.row.scene_id]))

\* export_combined's scenes query: ORDER BY the CASE expression
combined_scenes_query(d, scene_pks) ==
    LET S == WithRowid(JoinedRows(d, Range(scene_pks)))
    IN  Rows(OrderByKey(S, [x \in S |-> order_case(scene_pks, x.row.scene_pk)]))

\* export_edl's scenes query: ORDER BY s.video_id, s.scene_id
edl_scenes_query(d, safe_pks) ==
    LET S == WithRowid(JoinedRows(d, Range(safe_pks)))
    IN  Rows(OrderByKey(S, [x \in S |-> x.row.video_id * 1000 + x.row.scene_id]))

\* Rank of a start_timecode in SQLite's ascending order: NULL first, then
\* text by bytes ('' < 'HH:MM:SS:FF' zero-padded < 'aa:bb:cc:dd' < 'bad');
\* the huge field is taken as the text '99:99:99:9...9'.
TextRank(timecode) ==
    CASE timecode.kind = "none"   -> 0
      [] timecode.kind = "empty"  -> 1
      [] timecode.kind = "tc"     ->
            2 + ((timecode.h * 60 + timecode.m) * 60 + timecode.s) * 100 + timecode.f
      [] timecode.kind = "huge"   -> 40000000
      [] timecode.kind = "nonint" -> 40000001
      [] timecode.kind = "fields" -> 40000002

\* export_combined's transcriptions query, for the scenes found:
\* transcription IS NOT NULL AND != '', ORDER BY t.scene_id, t.start_timecode
transcriptions_query(d, found) ==
    LET S == { [rowid |-> id,
                row   |-> [trans_id       |-> id,
                           scene_id       |-> d.transcriptions[id].scene_id,
                           start_timecode |-> d.transcriptions[id].start_timecode,
                           end_timecode   |-> d.transcriptions[id].end_timecode]]
               : id \in { x \in DOMAIN d.transcriptions :
                              /\ d.transcriptions[x].scene_id \in found
                              /\ d.transcriptions[x].scene_id \in DOMAIN d.scenes
                              /\ d.transcriptions[x].has_text } }
    IN  Rows(OrderByKey(S, [x \in S |-> x.row.scene_id * 50000000
                                          + TextRank(x.row.start_timecode)]))

\* ------------------------------------------- export_combined: one scene

\* if scene['timecode_offset'] : '' and NULL are falsy
offset_seconds(scene) ==
    IF scene.timecode_offset.kind \in {"none", "empty"} THEN Zero
    ELSE timecode_to_seconds(scene.timecode_offset, source_frame_rate)

\* One iteration raises when a conversion it calls raises.
scene_raises(scene) ==
    \/ (scene.timecode_offset.kind \notin {"none", "empty"}
            /\ timecode_raises(scene.timecode_offset))
    \/ timecode_raises(scene.start_timecode)
    \/ timecode_raises(scene.end_timecode)


\* An end point that is never clipped to the end of the clip.
clip_to_clip_end_skipped(adjusted_end_sec, duration_seconds, clip_end_sec) ==
    adjusted_end_sec

\* adjusted_end_sec must not exceed clip_end_sec (beyond epsilon)
clip_to_clip_end(adjusted_end_sec, duration_seconds, clip_end_sec) ==
    IF duration_seconds.known /\ TLt(TAdd(clip_end_sec, epsilon), adjusted_end_sec)
    THEN clip_end_sec
    ELSE adjusted_end_sec

\* min_duration = 1.0 / edl_frame_rate
min_duration == T(60 \div edl_frame_rate, 0)

\* The minimum-duration step: adjusted_end_sec after it.
ensure_min_duration(adjusted_start_sec, adjusted_end_sec, duration_seconds, clip_end_sec) ==
    LET source_duration_sec == TMax(Zero, TSub(adjusted_end_sec, adjusted_start_sec))
    IN  IF TLt(source_duration_sec, TSub(min_duration, epsilon))
        THEN LET bumped == TAdd(adjusted_start_sec, min_duration)
             IN  IF duration_seconds.known THEN TMin(bumped, clip_end_sec) ELSE bumped
        ELSE adjusted_end_sec

\* The value given to the timecode conversion for the source OUT point.
out_sec_for_timecode(adjusted_end_sec, duration_seconds, clip_end_sec) ==
    IF duration_seconds.known /\ TLt(TAbs(TSub(adjusted_end_sec, clip_end_sec)), epsilon)
    THEN TSub(adjusted_end_sec, epsilon)
    ELSE IF TLt(adjusted_end_sec, epsilon) THEN Zero
    ELSE adjusted_end_sec


\* A record OUT point that forgets the record cursor.
record_out_without_cursor(record_start_seconds, source_duration_sec) ==
    source_duration_sec

\* record_out_sec = record_start_seconds + source_duration_sec
record_out_of(record_start_seconds, source_duration_sec) ==
    TAdd(record_start_seconds, source_duration_sec)

\* The body of the scene loop for scenes[i + 1] (i counts from 0): the
\* iteration's local variables and the EDL event it writes.
scene_event(scene, i, record_start_seconds) ==
    LET offset_sec         == offset_seconds(scene)
        source_start_sec   == timecode_to_seconds(scene.start_timecode, source_frame_rate)
        source_end_sec     == timecode_to_seconds(scene.end_timecode, source_frame_rate)
        adjusted_start_sec == TAdd(source_start_sec, offset_sec)
        clip_end_sec       == IF scene.duration_seconds.known
                              THEN TAdd(offset_sec, scene.duration_seconds.sec)
                              ELSE Zero
        clipped_end        == clip_to_clip_end(TAdd(source_end_sec, offset_sec),
                                               scene.duration_seconds, clip_end_sec)
        adjusted_end_sec   == ensure_min_duration(adjusted_start_sec, clipped_end,
                                                  scene.duration_seconds, clip_end_sec)
        source_duration_sec == TMax(Zero, TSub(adjusted_end_sec, adjusted_start_sec))
        out_sec_for_tc     == out_sec_for_timecode(adjusted_end_sec,
                                                   scene.duration_seconds, clip_end_sec)
        record_in_sec      == record_start_seconds
        record_out_sec     == record_out_of(record_start_seconds, source_duration_sec)
    IN  [event_num           |-> i + 1,
         scene_pk            |-> scene.scene_pk,
         video_filename      |-> scene.video_filename,
         clip_known          |-> scene.duration_seconds.known,
         clip_end_sec        |-> clip_end_sec,
         source_start_sec    |-> source_start_sec,
         adjusted_start_sec  |-> adjusted_start_sec,
         adjusted_end_sec    |-> adjusted_end_sec,
         source_duration_sec |-> source_duration_sec,
         source_in_tc        |-> seconds_to_edl_timecode(adjusted_start_sec, edl_frame_rate),
         source_out_tc       |-> seconds_to_edl_timecode(out_sec_for_tc, edl_frame_rate),
         record_in_sec       |-> record_in_sec,
         record_out_sec      |-> record_out_sec,
         record_in_tc        |-> seconds_to_edl_timecode(record_in_sec, edl_frame_rate),
         record_out_tc       |-> seconds_to_edl_timecode(record_out_sec, edl_frame_rate)]

\* ------------------------------------------- export_combined: one SRT cue

min_srt_duration == T(60 \div edl_frame_rate, 0)


\* A cue clipped with the epsilon slack only.
clip_to_scene_slack_only(time_info, record_trans_start, record_trans_end) ==
    [start |-> TMax(TSub(time_info.record_in, epsilon), record_trans_start),
     end   |-> TMin(TAdd(time_info.record_out, epsilon), record_trans_end)]

\* Clip [record_trans_start, record_trans_end] into the scene's record range:
\* first with the epsilon slack, then strictly.
clip_to_scene(time_info, record_trans_start, record_trans_end) ==
    LET s1 == TMax(TSub(time_info.record_in, epsilon), record_trans_start)
        e1 == TMin(TAdd(time_info.record_out, epsilon), record_trans_end)
    IN  [start |-> TMax(time_info.record_in, s1),
         end   |-> TMin(time_info.record_out, e1)]

\* No reversed cue, and at least one frame: the cue after the step.
ensure_min_srt_duration(time_info, cue) ==
    IF TLt(cue.end, TSub(TAdd(cue.start, min_srt_duration), epsilon))
    THEN LET record_trans_end == TAdd(cue.start, min_srt_duration)
         IN  IF TLt(time_info.record_out, record_trans_end)
             THEN IF TLt(min_srt_duration, TSub(time_info.record_out, time_info.record_in))
                  THEN [start |-> TSub(time_info.record_out, min_srt_duration),
                        end   |-> time_info.record_out]
                  ELSE LET middle ==
                               THalf(TAdd(time_info.record_in, time_info.record_out))
                           half_duration == THalf(min_srt_duration)
                       IN  [start |-> TMax(time_info.record_in,
                                           TSub(middle, half_duration)),
                            end   |-> TMin(time_info.record_out,
                                           TAdd(middle, half_duration))]
             ELSE [start |-> cue.start, end |-> record_trans_end]
    ELSE cue

trans_raises(trans) ==
    timecode_raises(trans.start_timecode) \/ timecode_raises(trans.end_timecode)

\* The cue of one transcription of the scene with record times time_info.
srt_cue(trans, time_info) ==
    LET trans_start_sec == timecode_to_seconds(trans.start_timecode, source_frame_rate)
        trans_end_sec   == timecode_to_seconds(trans.end_timecode, source_frame_rate)
        scene_trans_start_rel == TSub(trans_start_sec, time_info.source_start)
        scene_trans_end_rel   == TSub(trans_end_sec, time_info.source_start)
        raw_start == TAdd(time_info.record_in, scene_trans_start_rel)
        raw_end   == TAdd(time_info.record_in, scene_trans_end_rel)
        cue == ensure_min_srt_duration(time_info,
                                       clip_to_scene(time_info, raw_start, raw_end))
    IN  [trans_id   |-> trans.trans_id,
         scene_pk   |-> time_info.scene_pk,
         record_in  |-> time_info.record_in,
         record_out |-> time_info.record_out,
         raw_start  |-> raw_start,
         raw_end    |-> raw_end,
         start      |-> cue.start,
         end        |-> cue.end,
         start_srt  |-> seconds_to_srt_timecode(cue.start),
         end_srt    |-> seconds_to_srt_timecode(cue.end)]

\* ------------------------------------------------------------ the state

VARIABLES
    db,                    \* the SQLite database: videos, scenes, transcriptions
    request,               \* the JSON body of the request being served
    pc,                    \* "idle", "combined_scenes" (in export_combined), "done"
    scenes,                \* export_combined: the rows fetched
    transcriptions,        \* export_combined: the transcription rows fetched
    i,                     \* export_combined: scenes handled by the scene loop
    record_start_seconds,  \* export_combined: the record cursor
    scene_record_times,    \* export_combined: the dict, in insertion order
    edl_content,           \* the event blocks after the EDL header
    j,                     \* export_combined: scenes handled by the SRT loop
    srt_content,           \* the cue blocks of the SRT document
    response,              \* the response returned
    handlers,              \* the local variables of each request served in a thread
    call,                  \* a conversion function called on its own, and its outcome
    data,                  \* GPMFParser.data: the bytes of the buffer
    position,              \* GPMFParser.position
    gps_data,              \* GPMFParser.gps_data
    parser_pc,             \* "idle", "parsing" (in parse_gps_data), "returned"
    thumbnail_items,       \* ThumbnailGrid.thumbnail_items
    grid_layout,           \* ThumbnailGrid.grid_layout: the widgets placed, with row and column
    load_scenes_call,      \* the last call of ThumbnailGrid.load_scenes
    continuous_play_list,  \* qtapp VideoPreviewApp.continuous_play_list
    continuous_play_index, \* qtapp VideoPreviewApp.continuous_play_index
    mediaplayer,           \* VLCPlayerWidget.mediaplayer: the scene loaded and its state
    stop_timer,            \* VLCPlayerWidget.stop_timer is active
    play_next_queue,       \* play_next_signal emissions queued for the GUI thread
    gui_thread,            \* where the GUI thread stands in _on_stop_timer_timeout
    vlc_thread,            \* where the VLC event thread stands in _on_vlc_end_reached
    started,               \* the indexes given to vlc_player.play since the play began
    scene_table,           \* video_preview_app: the rows of scene_table_widget, top to bottom
    current_row,           \* video_preview_app: scene_table_widget.currentRow()
    playback_playlist,     \* video_preview_app VideoPreviewApp.playback_playlist
    current_playlist_index, \* video_preview_app VideoPreviewApp.current_playlist_index
    current_scene,         \* video_preview_app: the scene loaded into the player
    player_playing,        \* video_preview_app: the player is playing that scene
    finished_queue,        \* playbackFinished emissions queued for play_next_in_playlist
    clear_pending,         \* the single shot of clear_player_and_info is pending
    last_slot,             \* the slot that last loaded or released a scene
    media,                 \* VideoPlayer: the media set in vlc_player, numbered by load (0: none)
    vlc_state,             \* vlc_player.get_state()
    length_posted,         \* VLC has sent MediaPlayerLengthChanged for the media
    vlc_events,            \* VlcEventManager: the slots invoked by _post_signal, not yet run
    media_parsed,          \* VideoPlayer.media_parsed
    pending_start_time_ms, \* VideoPlayer.pending_start_time_ms
    current_scene_end_time_ms, \* VideoPlayer.current_scene_end_time_ms
    seeks,                 \* the calls of VideoPlayer.set_position made by the event handlers
    table_data,            \* EditablePandasModel._data: the rows of the frame, top to bottom
    original_data,         \* EditablePandasModel._original_data
    modified_rows,         \* EditablePandasModel._modified_rows: row positions, from 0
    changed_ids            \* the id of the records that setData changed since the last reset

\* The variables of the one-request-at-a-time server.
serverVars == <<request, pc, scenes, transcriptions, i, record_start_seconds,
                scene_record_times, edl_content, j, srt_content, response>>

\* The variables of GPMFParser.
parserVars == <<data, position, gps_data, parser_pc>>

\* The variables of ThumbnailGrid.
gridVars == <<thumbnail_items, grid_layout, load_scenes_call>>

\* The variables of qtapp's continuous play.
qtVars == <<continuous_play_list, continuous_play_index, mediaplayer, stop_timer,
            play_next_queue, gui_thread, vlc_thread, started>>

\* The variables of video_preview_app's window.
previewVars == <<scene_table, current_row, playback_playlist, current_playlist_index,
                 current_scene, player_playing, finished_queue, clear_pending, last_slot>>

\* The variables of VideoPlayer.
playerVars == <<media, vlc_state, length_posted, vlc_events, media_parsed, pending_start_time_ms, current_scene_end_time_ms, seeks>>

\* The variables of EditablePandasModel.
modelVars == <<table_data, original_data, modified_rows, changed_ids>>

\* The variables of the server, the conversions and the parser.
notDesktopVars == <<db, serverVars, handlers, call, parserVars>>

\* All variables but those of ThumbnailGrid.
besidesGrid == <<notDesktopVars, qtVars, previewVars, playerVars, modelVars>>

\* All variables but those of qtapp's continuous play.
besidesQt == <<notDesktopVars, gridVars, previewVars, playerVars, modelVars>>

\* All variables but those of video_preview_app's window.
besidesPreview == <<notDesktopVars, gridVars, qtVars, playerVars, modelVars>>

\* All variables but those of VideoPlayer.
besidesPlayer == <<notDesktopVars, gridVars, qtVars, previewVars, modelVars>>

\* All variables but those of EditablePandasModel.
besidesModel == <<notDesktopVars, gridVars, qtVars, previewVars, playerVars>>

\* The variables of the desktop programs.
desktopVars == <<gridVars, qtVars, previewVars, playerVars, modelVars>>

vars == <<db, serverVars, handlers, call, parserVars, desktopVars>>

\* load_scenes has not been called.
NoLoadScenes == [scenes |-> << >>, items_before |-> 0]

\* ThumbnailGrid.__init__: no thumbnail.
GridIdle ==
    /\ thumbnail_items = << >>
    /\ grid_layout = << >>
    /\ load_scenes_call = NoLoadScenes

\* mediaplayer is None.
NoPlayer == [scene |-> 0, state |-> "none"]

\* A thread that runs no handler.
NoHandler == [pc |-> "idle", tmp |-> 0]

\* qtapp VideoPreviewApp.__init__ and VLCPlayerWidget.__init__
QtIdle ==
    /\ continuous_play_list = << >>
    /\ continuous_play_index = 0
    /\ mediaplayer = NoPlayer
    /\ stop_timer = FALSE
    /\ play_next_queue = << >>
    /\ gui_thread = NoHandler
    /\ vlc_thread = NoHandler
    /\ started = << >>

\* playback_playlist is None.
NoPlaylist == [is_none |-> TRUE, items |-> << >>]

\* VideoPreviewApp.__init__ before the database is loaded: no row.
PreviewIdle ==
    /\ scene_table = << >>
    /\ current_row = -1
    /\ playback_playlist = NoPlaylist
    /\ current_playlist_index = -1
    /\ current_scene = 0
    /\ player_playing = FALSE
    /\ finished_queue = 0
    /\ clear_pending = FALSE
    /\ last_slot = "none"

\* VideoPlayer.__init__
PlayerIdle ==
    /\ media = 0
    /\ vlc_state = "NothingSpecial"
    /\ length_posted = FALSE
    /\ vlc_events = << >>
    /\ media_parsed = FALSE
    /\ pending_start_time_ms = -1
    /\ current_scene_end_time_ms = -1
    /\ seeks = << >>

\* EditablePandasModel(pd.DataFrame())
ModelIdle ==
    /\ table_data = << >>
    /\ original_data = << >>
    /\ modified_rows = {}
    /\ changed_ids = {}

\* No desktop program is running.
DesktopIdle == GridIdle /\ QtIdle /\ PreviewIdle /\ PlayerIdle /\ ModelIdle

\* ------------------------------------------------------ database contents

\* timecode_offset of video 1
Offsets == {TcNone, Tc(0, 0, 1, 0), TcNonInt}

\* duration_seconds of video 1
Durations ==
    { NoDuration,
      Duration(Sec(15, 0)),
      Duration(T(900, 60000000)),
      Duration(T(901, 50000002)),
      Duration(T(1200, 4)),
      Duration(T(1199, Ticks - 4)),
      Duration(T(600, 30000000)),
      Duration(T(600, Ticks - 4)),
      Duration(Sec(5, 0)) }

\* start and end timecode of scene 3 (of video 1)
ScenePairs ==
    { <<Tc(0, 0, 10, 0), Tc(0, 0, 20, 0)>>,
      <<Tc(0, 0, 10, 0), Tc(0, 0, 10, 0)>>,
      <<Tc(0, 0, 20, 0), Tc(0, 0, 10, 0)>> }

\* start and end timecode of scene 1 (of video 2), and the end timecode of
\* its transcription
BadRows ==
    { <<TcNone, Tc(0, 0, 5, 0), Tc(0, 0, 3, 0)>>,
      <<TcFields, TcNonInt, TcHuge>>,
      <<Tc(0, 0, 2, 0), TcEmpty, TcNone>>,
      <<Tc(0, 0, 1, 0), TcHuge, Tc(0, 0, 3, 0)>> }

Scene(video_id, scene_id, start_timecode, end_timecode) ==
    [video_id |-> video_id, scene_id |-> scene_id,
     start_timecode |-> start_timecode, end_timecode |-> end_timecode]

Transcription(scene_id, start_timecode, end_timecode, has_text) ==
    [scene_id |-> scene_id, start_timecode |-> start_timecode,
     end_timecode |-> end_timecode, has_text |-> has_text]

Database(offset, duration, pair, bad) ==
    [videos |->
        (1 :> [filename |-> "GX010001.MP4", timecode_offset |-> offset,
               duration_seconds |-> duration]
         @@ 2 :> [filename |-> "GX010002.MP4", timecode_offset |-> TcEmpty,
                  duration_seconds |-> NoDuration]),
     scenes |->
        (1 :> Scene(2, 1, bad[1], bad[2])
         @@ 2 :> Scene(1, 2, Tc(0, 0, 12, 0), Tc(0, 0, 14, 30))
         @@ 3 :> Scene(1, 1, pair[1], pair[2])),
     transcriptions |->
        (1 :> Transcription(3, Tc(0, 0, 11, 0), Tc(0, 0, 13, 0), TRUE)
         @@ 2 :> Transcription(3, Tc(0, 0, 9, 0), Tc(0, 0, 10, 30), TRUE)
         @@ 3 :> Transcription(3, Tc(0, 0, 25, 0), Tc(0, 0, 26, 0), TRUE)
         @@ 4 :> Transcription(3, Tc(0, 0, 15, 0), Tc(0, 0, 15, 0), TRUE)
         @@ 5 :> Transcription(2, Tc(0, 0, 12, 10), TcFields, TRUE)
         @@ 6 :> Transcription(2, Tc(0, 0, 13, 0), Tc(0, 0, 14, 0), FALSE)
         @@ 7 :> Transcription(1, bad[1], bad[3], TRUE))]

Databases ==
    { Database(offset, duration, pair, bad) :
        offset \in Offsets, duration \in Durations, pair \in ScenePairs, bad \in BadRows }

\* ---------------------------------------------------------------- requests

\* The ids a request names: scenes 1..3 exist, scene 4 does not.
RequestIds == {1, 2, 3, 4}

RECURSIVE SeqsUpTo(_, _)
SeqsUpTo(S, n) ==
    IF n = 0 THEN { << >> }
    ELSE LET shorter == SeqsUpTo(S, n - 1)
         IN  shorter \cup { Append(q, x) : q \in shorter, x \in S }

\* shape "ok": scene_pks is a list of integers. "no_scene_pks": the key is
\* missing. "not_list": scene_pks is not a list. "non_int": a list holding
\* something that is no integer.  format "": the key is missing.
Request(endpoint, shape, scene_pks, format) ==
    [endpoint |-> endpoint, shape |-> shape, scene_pks |-> scene_pks, format |-> format]

CombinedRequests ==
    { Request("combined", "ok", pks, fmt) : pks \in SeqsUpTo(RequestIds, MaxPks),
                                fmt \in {"EDL", "SRT"} }
    \cup { Request("combined", "ok", <<1>>, "XML"),
           Request("combined", "ok", <<1>>, ""),
           Request("combined", "no_scene_pks", << >>, "EDL"),
           Request("combined", "not_list", << >>, "EDL"),
           Request("combined", "non_int", << >>, "EDL") }

EdlRequests ==
    { Request("edl", "ok", pks, "") : pks \in SeqsUpTo(RequestIds, MaxPks) }
    \cup { Request("edl", "no_scene_pks", << >>, ""),
           Request("edl", "not_list", << >>, ""),
           Request("edl", "non_int", << >>, "") }

NoRequest == [endpoint |-> "none", shape |-> "ok", scene_pks |-> << >>, format |-> ""]

NoResponse == [status |-> 0, body |-> "none"]

Error(status) == [status |-> status, body |-> "error"]

\* No conversion function is being called on its own.
NoCall == [function |-> "none"]

Init ==
    /\ db \in Databases
    /\ request = NoRequest
    /\ pc = "idle"
    /\ scenes = << >>
    /\ transcriptions = << >>
    /\ i = 0
    /\ record_start_seconds = Zero
    /\ scene_record_times = << >>
    /\ edl_content = << >>
    /\ j = 0
    /\ srt_content = << >>
    /\ response = NoResponse
    /\ handlers = << >>
    /\ call = NoCall
    /\ data = << >>
    /\ position = 0
    /\ gps_data = << >>
    /\ parser_pc = "idle"
    /\ DesktopIdle

\* ----------------------------------------------------------------- actions

\* A handler starts with its own local variables.
Begin(req) ==
    /\ pc = "idle"
    /\ request' = req
    /\ i' = 0
    /\ j' = 0
    /\ record_start_seconds' = Zero
    /\ scene_record_times' = << >>
    /\ edl_content' = << >>
    /\ srt_content' = << >>
    /\ UNCHANGED <<db, handlers, call, parserVars, desktopVars>>

Return(resp) ==
    /\ pc' = "done"
    /\ response' = resp

\* POST /api/export/combined, up to the scene loop: the checks of the body
\* and the two queries.
ExportCombinedRequest ==
    \E req \in CombinedRequests :
        /\ Begin(req)
        /\ IF req.shape = "no_scene_pks" \/ req.format = ""
           THEN Return(Error(400)) /\ scenes' = << >> /\ transcriptions' = << >>
           ELSE IF req.shape = "not_list" \/ (req.shape = "ok" /\ req.scene_pks = << >>)
           THEN Return(Error(400)) /\ scenes' = << >> /\ transcriptions' = << >>
           ELSE IF req.format \notin {"EDL", "SRT"}
           THEN Return(Error(400)) /\ scenes' = << >> /\ transcriptions' = << >>
           ELSE IF req.shape = "non_int"
           THEN \* the CASE expression names no column: sqlite3.Error
                Return(Error(500)) /\ scenes' = << >> /\ transcriptions' = << >>
           ELSE LET found == combined_scenes_query(db, req.scene_pks)
                IN  IF found = << >>
                    THEN Return(Error(404)) /\ scenes' = << >> /\ transcriptions' = << >>
                    ELSE /\ scenes' = found
                         /\ transcriptions' =
                                IF req.format = "SRT"
                                THEN transcriptions_query(
                                         db, { found[k].scene_pk : k \in 1..Len(found) })
                                ELSE << >>
                         /\ pc' = "combined_scenes"
                         /\ response' = NoResponse

\* One iteration of the scene loop of export_combined.
ExportCombinedScene ==
    /\ pc = "combined_scenes"
    /\ i < Len(scenes)
    /\ LET scene == scenes[i + 1]
       IN  IF scene_raises(scene)
           THEN \* OverflowError, caught by the handler's except Exception
                /\ Return(Error(500))
                /\ UNCHANGED <<i, record_start_seconds, scene_record_times, edl_content>>
           ELSE LET ev == scene_event(scene, i, record_start_seconds)
                IN  /\ edl_content' = Append(edl_content, ev)
                    /\ scene_record_times' =
                           Append(scene_record_times,
                                  [scene_pk     |-> ev.scene_pk,
                                   record_in    |-> ev.record_in_sec,
                                   record_out   |-> ev.record_out_sec,
                                   source_start |-> ev.source_start_sec])
                    /\ record_start_seconds' = ev.record_out_sec
                    /\ i' = i + 1
                    /\ UNCHANGED <<pc, response>>
    /\ UNCHANGED <<db, request, scenes, transcriptions, j, srt_content>>
    /\ UNCHANGED <<handlers, call, parserVars, desktopVars>>

\* After the scene loop, format EDL: the EDL document is returned.
ExportCombinedReturnEdl ==
    /\ pc = "combined_scenes"
    /\ i = Len(scenes)
    /\ request.format = "EDL"
    /\ Return([status |-> 200, body |-> "edl"])
    /\ UNCHANGED <<db, request, scenes, transcriptions, i, record_start_seconds,
                   scene_record_times, edl_content, j, srt_content>>
    /\ UNCHANGED <<handlers, call, parserVars, desktopVars>>

\* The cues of the transcriptions trs, numbered from srt_idx.
cues_of(trs, time_info, srt_idx) ==
    [k \in 1..Len(trs) |-> [srt_idx |-> srt_idx + k - 1] @@ srt_cue(trs[k], time_info)]

\* After the scene loop, format SRT: one iteration of the loop over
\* scene_record_times, with the loop over that scene's transcriptions.
ExportCombinedSrtScene ==
    /\ pc = "combined_scenes"
    /\ i = Len(scenes)
    /\ request.format = "SRT"
    /\ j < Len(scene_record_times)
    /\ LET time_info   == scene_record_times[j + 1]
           scene_trans == SelectSeq(transcriptions,
                                    LAMBDA tr : tr.scene_id = time_info.scene_pk)
       IN  IF \E k \in 1..Len(scene_trans) : trans_raises(scene_trans[k])
           THEN /\ Return(Error(500))
                /\ UNCHANGED <<j, srt_content>>
           ELSE /\ srt_content' =
                       srt_content \o cues_of(scene_trans, time_info, Len(srt_content) + 1)
                /\ j' = j + 1
                /\ UNCHANGED <<pc, response>>
    /\ UNCHANGED <<db, request, scenes, transcriptions, i, record_start_seconds,
                   scene_record_times, edl_content>>
    /\ UNCHANGED <<handlers, call, parserVars, desktopVars>>

\* After the SRT loop: the SRT document is returned.
ExportCombinedReturnSrt ==
    /\ pc = "combined_scenes"
    /\ i = Len(scenes)
    /\ request.format = "SRT"
    /\ j = Len(scene_record_times)
    /\ Return([status |-> 200, body |-> "srt"])
    /\ UNCHANGED <<db, request, scenes, transcriptions, i, record_start_seconds,
                   scene_record_times, edl_content, j, srt_content>>
    /\ UNCHANGED <<handlers, call, parserVars, desktopVars>>

\* The columns of a row of export_edl's query, and the names its loop
\* header "for i, scene in scenes" unpacks each row into.
EdlRowColumns == 8

EdlLoopTargets == 2

\* POST /api/export/edl.  The loop unpacks each fetched row into (i, scene):
\* with a row of 8 columns the first iteration raises ValueError before its
\* body runs, and the handler's except ValueError answers 400.
ExportEdl ==
    \E req \in EdlRequests :
        /\ Begin(req)
        /\ transcriptions' = << >>
        /\ IF req.shape = "no_scene_pks" \/ req.shape = "not_list"
           THEN Return(Error(400)) /\ scenes' = << >>
           ELSE IF req.shape = "ok" /\ req.scene_pks = << >>
           THEN Return(Error(400)) /\ scenes' = << >>
           ELSE IF req.shape = "non_int"
           THEN \* int(pk) raises ValueError
                Return(Error(400)) /\ scenes' = << >>
           ELSE LET found == edl_scenes_query(db, req.scene_pks)
                IN  /\ scenes' = found
                    /\ IF found # << >> /\ EdlRowColumns # EdlLoopTargets
                       THEN Return(Error(400))
                       ELSE Return([status |-> 200, body |-> "edl"])

\* The response has been sent: the handler's local variables are gone and
\* the server waits for the next request.
Served ==
    /\ pc = "done"
    /\ pc' = "idle"
    /\ request' = NoRequest
    /\ scenes' = << >>
    /\ transcriptions' = << >>
    /\ i' = 0
    /\ j' = 0
    /\ record_start_seconds' = Zero
    /\ scene_record_times' = << >>
    /\ edl_content' = << >>
    /\ srt_content' = << >>
    /\ response' = NoResponse
    /\ UNCHANGED <<db, handlers, call, parserVars, desktopVars>>

Next ==
    \/ ExportCombinedRequest
    \/ ExportCombinedScene
    \/ ExportCombinedReturnEdl
    \/ ExportCombinedSrtScene
    \/ ExportCombinedReturnSrt
    \/ ExportEdl
    \/ Served

Spec == Init /\ [][Next]_vars

\* ------------------------------------- the conversion functions on their own

\* A Python value handed to a seconds conversion: None, a string, or a
\* number (an int or a float, here a fixed-point value).
PyNone == [kind |-> "none", value |-> Zero]

PyStr == [kind |-> "str", value |-> Zero]

PyNum(x) == [kind |-> "num", value |-> x]

\* A frame rate that need not be an integer: num / den.
FrameRate(num, den) == [num |-> num, den |-> den]

\* A seconds value that is None or no number.
seconds_not_numeric_none_only(total_seconds) ==
    total_seconds.kind = "none"

\* The first two tests of the guard of seconds_to_timecode and of
\* seconds_to_srt_timecode: total_seconds is None or not isinstance(
\* total_seconds, (int, float)).  The third, total_seconds < 0, raises
\* TypeError on a value that is no number.
seconds_not_numeric(total_seconds) ==
    total_seconds.kind = "none" \/ total_seconds.kind # "num"

\* The guard of the Streamlit and Gradio copies: total_seconds is None.
seconds_is_none(total_seconds) ==
    total_seconds.kind = "none"

\* int(round(x)) of x = num / den, a tie going to the even integer.
RoundHalfEven(num, den) ==
    LET q == num \div den
        r == num % den
    IN  IF 2 * r > den THEN q + 1
        ELSE IF 2 * r = den THEN q + (q % 2)
        ELSE q

\* seconds_to_timecode with modulus int(frame_rate) + 1.
seconds_to_timecode_modulus_off_by_one(total_seconds, frame_rate) ==
    LET total_frames == RoundHalfEven(total_seconds.f * frame_rate.num,
                                      60 * frame_rate.den)
        int_rate     == frame_rate.num \div frame_rate.den + 1
    IN  [raised |-> FALSE,
         value  |-> Tc(0, 0, total_frames \div int_rate, total_frames % int_rate)]

\* seconds_to_timecode for a frame rate that is any positive number and a
\* non-negative total_seconds of whole 60ths of a second: int(frame_rate)
\* is the modulus, and int(frame_rate) = 0 raises ZeroDivisionError inside
\* the try, which returns the zero timecode.
seconds_to_timecode_any_rate(total_seconds, frame_rate) ==
    LET total_frames      == RoundHalfEven(total_seconds.f * frame_rate.num,
                                           60 * frame_rate.den)
        int_rate          == frame_rate.num \div frame_rate.den
    IN  IF int_rate = 0 THEN [raised |-> FALSE, value |-> Tc(0, 0, 0, 0)]
        ELSE LET frames            == total_frames % int_rate
                 total_seconds_int == total_frames \div int_rate
                 seconds           == total_seconds_int % 60
                 total_minutes     == total_seconds_int \div 60
                 minutes           == total_minutes % 60
                 hours             == total_minutes \div 60
             IN  [raised |-> FALSE, value |-> Tc(hours, minutes, seconds, frames)]

\* The outcome of a call: an exception that leaves the function, or a value.
Raised == [raised |-> TRUE, value |-> Zero]

Returned(value) == [raised |-> FALSE, value |-> value]

\* app.timecode_to_seconds as a call.
call_timecode_to_seconds(timecode, frame_rate) ==
    IF timecode_raises(timecode) THEN Raised
    ELSE Returned(timecode_to_seconds(timecode, frame_rate))

\* app.seconds_to_timecode as a call.  A frame rate of 30 or 60 takes any
\* fixed-point value; another rate takes whole 60ths of a second.
call_seconds_to_timecode(total_seconds, frame_rate) ==
    IF seconds_not_numeric(total_seconds) THEN Returned(Tc(0, 0, 0, 0))
    ELSE IF total_seconds.kind # "num" THEN Raised
    ELSE IF TLt(total_seconds.value, Zero) THEN Returned(Tc(0, 0, 0, 0))
    ELSE IF frame_rate.den = 1 /\ frame_rate.num \in {30, 60}
    THEN Returned(seconds_to_timecode(total_seconds.value, frame_rate.num))
    ELSE seconds_to_timecode_any_rate(total_seconds.value, frame_rate)

\* app.seconds_to_srt_timecode (and its copy in qtapp.py) as a call.
call_seconds_to_srt_timecode(total_seconds) ==
    IF seconds_not_numeric(total_seconds) THEN Returned(SrtTc(0, 0, 0, 0))
    ELSE IF total_seconds.kind # "num" THEN Raised
    ELSE Returned(seconds_to_srt_timecode(total_seconds.value))

\* VideoDataConverter.timecode_to_seconds (converter.py): map(int, timecode.split(':')) unpacked
\* into four names, at 30 fps, with no try and no test of the argument.
VideoDataConverter_timecode_to_seconds(timecode) ==
    IF timecode.kind # "tc" THEN Raised
    ELSE Returned(timecode_to_seconds(timecode, 30))

\* VideoDatabase.parse_timecode (create_database.py): 0 for a false value and for a wrong
\* number of fields; int() of each field with no try.
VideoDatabase_parse_timecode(timecode) ==
    IF timecode.kind \in {"none", "empty"} THEN Returned(Zero)
    ELSE IF timecode.kind = "fields" THEN Returned(Zero)
    ELSE IF timecode.kind \in {"nonint", "huge"} THEN Raised
    ELSE Returned(timecode_to_seconds(timecode, 30))

\* timecode_to_seconds of streamlit_app.py and gradio_app.py: the code of
\* app.timecode_to_seconds at 30 fps.
streamlit_timecode_to_seconds(timecode) ==
    call_timecode_to_seconds(timecode, 30)

\* seconds_to_timecode of streamlit_app.py and gradio_app.py: the guard is
\* total_seconds is None or total_seconds < 0, with no try.
streamlit_seconds_to_timecode(total_seconds) ==
    IF seconds_is_none(total_seconds) THEN Returned(Tc(0, 0, 0, 0))
    ELSE IF total_seconds.kind # "num" THEN Raised
    ELSE Returned(seconds_to_timecode(total_seconds.value, 30))

\* timecode_to_seconds of qtapp.py: every exception gives 0.
qtapp_timecode_to_seconds(tc, frame_rate) ==
    IF tc.kind # "tc" THEN Returned(Zero)
    ELSE Returned(timecode_to_seconds(tc, frame_rate))

\* The hours, the minutes and seconds, and the frames of the timecodes
\* converted: in and beyond the ranges of a clock.
Hours == 0..MaxHours

MinutesOrSeconds == {0, 1, 59, 60, 75}

Frames == {0, 1, 29, 30, 59}

CallTimecodes ==
    { Tc(h, m, s, f) : h \in Hours, m \in MinutesOrSeconds,
                       s \in MinutesOrSeconds, f \in Frames }
    \cup {TcNone, TcEmpty, TcFields, TcNonInt, TcHuge}

\* -5 s, 0, epsilon, one frame, 29.5 frames and a bit, 0.9996 s, just below
\* 1 s, 1 s, 59 s 59 frames, just below and at one hour.
SecondsValues ==
    { T(-300, 0), Zero, epsilon, T(1, 0), T(29, 50000002), T(59, 97600000),
      T(59, Ticks - 1), Sec(1, 0), Sec(59, 59), Sec(3599, 59), Sec(3600, 0) }

CallSeconds == {PyNone, PyStr} \cup { PyNum(x) : x \in SecondsValues }

\* 0.5, 1, 24, 29.97, 30 and 60 frames per second.
CallFrameRates ==
    { FrameRate(1, 2), FrameRate(1, 1), FrameRate(24, 1), FrameRate(2997, 100),
      FrameRate(30, 1), FrameRate(60, 1) }

Call(function, timecode, total_seconds, frame_rate, outcome) ==
    [function |-> function, timecode |-> timecode, total_seconds |-> total_seconds,
     frame_rate |-> frame_rate, outcome |-> outcome]

\* The server and the parser are not running.
OnlyCalls ==
    /\ request = NoRequest
    /\ pc = "idle"
    /\ scenes = << >>
    /\ transcriptions = << >>
    /\ i = 0
    /\ record_start_seconds = Zero
    /\ scene_record_times = << >>
    /\ edl_content = << >>
    /\ j = 0
    /\ srt_content = << >>
    /\ response = NoResponse
    /\ handlers = << >>
    /\ data = << >>
    /\ position = 0
    /\ gps_data = << >>
    /\ parser_pc = "idle"
    /\ DesktopIdle

InitConversions ==
    /\ db = Database(TcNone, NoDuration, <<Tc(0, 0, 10, 0), Tc(0, 0, 20, 0)>>,
                     <<TcNone, TcNone, TcNone>>)
    /\ OnlyCalls
    /\ call = NoCall

\* A function is called and its outcome recorded.
Calls(c) ==
    /\ call = NoCall
    /\ call' = c
    /\ UNCHANGED <<db, serverVars, handlers, parserVars, desktopVars>>

CallTimecodeToSeconds ==
    \E timecode \in CallTimecodes, frame_rate \in {30, 60} :
        Calls(Call("timecode_to_seconds", timecode, PyNone, FrameRate(frame_rate, 1),
                   call_timecode_to_seconds(timecode, frame_rate)))

CallSecondsToTimecode ==
    \E total_seconds \in CallSeconds, frame_rate \in CallFrameRates :
        /\ \/ frame_rate.den = 1 /\ frame_rate.num \in {30, 60}
           \/ total_seconds.value.t = 0
        /\ Calls(Call("seconds_to_timecode", TcNone, total_seconds, frame_rate,
                      call_seconds_to_timecode(total_seconds, frame_rate)))

CallSecondsToSrtTimecode ==
    \E total_seconds \in CallSeconds :
        Calls(Call("seconds_to_srt_timecode", TcNone, total_seconds, FrameRate(1, 1),
                   call_seconds_to_srt_timecode(total_seconds)))

\* seconds_to_timecode(timecode_to_seconds(timecode, fr), fr)
CallRoundTrip ==
    \E timecode \in CallTimecodes, frame_rate \in {30, 60} :
        /\ timecode.kind = "tc"
        /\ timecode.f < frame_rate
        /\ LET total_seconds == PyNum(timecode_to_seconds(timecode, frame_rate))
           IN  Calls(Call("round_trip", timecode, total_seconds, FrameRate(frame_rate, 1),
                          call_seconds_to_timecode(total_seconds,
                                                   FrameRate(frame_rate, 1))))

CallConverterTimecodeToSeconds ==
    \E timecode \in CallTimecodes :
        Calls(Call("VideoDataConverter.timecode_to_seconds", timecode, PyNone, FrameRate(30, 1),
                   VideoDataConverter_timecode_to_seconds(timecode)))

CallParseTimecode ==
    \E timecode \in CallTimecodes :
        Calls(Call("VideoDatabase.parse_timecode", timecode, PyNone, FrameRate(30, 1),
                   VideoDatabase_parse_timecode(timecode)))

CallStreamlitTimecodeToSeconds ==
    \E timecode \in CallTimecodes :
        Calls(Call("streamlit_app.timecode_to_seconds", timecode, PyNone,
                   FrameRate(30, 1), streamlit_timecode_to_seconds(timecode)))

CallStreamlitSecondsToTimecode ==
    \E total_seconds \in CallSeconds :
        Calls(Call("streamlit_app.seconds_to_timecode", TcNone, total_seconds,
                   FrameRate(30, 1), streamlit_seconds_to_timecode(total_seconds)))

CallQtappTimecodeToSeconds ==
    \E timecode \in CallTimecodes, frame_rate \in {30, 60} :
        Calls(Call("qtapp.timecode_to_seconds", timecode, PyNone,
                   FrameRate(frame_rate, 1), qtapp_timecode_to_seconds(timecode, frame_rate)))

\* The caller has the outcome.
CallReturns ==
    /\ call # NoCall
    /\ call' = NoCall
    /\ UNCHANGED <<db, serverVars, handlers, parserVars, desktopVars>>

NextConversions ==
    \/ CallTimecodeToSeconds
    \/ CallSecondsToTimecode
    \/ CallSecondsToSrtTimecode
    \/ CallRoundTrip
    \/ CallConverterTimecodeToSeconds
    \/ CallParseTimecode
    \/ CallStreamlitTimecodeToSeconds
    \/ CallStreamlitSecondsToTimecode
    \/ CallQtappTimecodeToSeconds
    \/ CallReturns

SpecConversions == InitConversions /\ [][NextConversions]_vars

\* ------------------------------------------------ GPMFParser (parse_gpmf.py)

\* data[position:position + n] of Python, data counted from 0.
Slice(d, p, n) ==
    SubSeq(d, p + 1, IF p + n > Len(d) THEN Len(d) ELSE p + n)

\* The codes of the characters of 'GPS5'.
GPS5 == <<71, 80, 83, 53>>

\* bytes.decode('ascii') raises UnicodeDecodeError on a byte above 127.
decode_raises(bytes) == \E k \in 1..Len(bytes) : bytes[k] > 127

\* parse_fourcc: None when fewer than 4 bytes are left; else the 4 bytes as
\* text, position moved by 4.  A decode error leaves the position.
parse_fourcc(d, p) ==
    IF p + 4 > Len(d) THEN [none |-> TRUE, raised |-> FALSE, fourcc |-> << >>, position |-> p]
    ELSE IF decode_raises(Slice(d, p, 4))
    THEN [none |-> FALSE, raised |-> TRUE, fourcc |-> << >>, position |-> p]
    ELSE [none |-> FALSE, raised |-> FALSE, fourcc |-> Slice(d, p, 4), position |-> p + 4]

\* struct.unpack('>I', ...): the 4 bytes as a big-endian unsigned integer.
unpack_I(bytes) ==
    ((bytes[1] * 256 + bytes[2]) * 256 + bytes[3]) * 256 + bytes[4]

\* parse_size: None when fewer than 4 bytes are left; else the size,
\* position moved by 4.
parse_size(d, p) ==
    IF p + 4 > Len(d) THEN [none |-> TRUE, size |-> 0, position |-> p]
    ELSE [none |-> FALSE, size |-> unpack_I(Slice(d, p, 4)), position |-> p + 4]

\* 4 bytes read with the least significant byte first.
unpack_f_little_endian(bytes) ==
    [sign     |-> bytes[4] \div 128,
     exponent |-> (bytes[4] % 128) * 2 + bytes[3] \div 128,
     fraction |-> ((bytes[3] % 128) * 256 + bytes[2]) * 256 + bytes[1]]

\* One 'f' of struct.unpack('>fffff', ...): 4 bytes as a big-endian IEEE 754
\* single, the number (-1)^sign * 2^(exponent - 127) * (1 + fraction / 2^23).
unpack_f(bytes) ==
    [sign     |-> bytes[1] \div 128,
     exponent |-> (bytes[1] % 128) * 2 + bytes[2] \div 128,
     fraction |-> ((bytes[2] % 128) * 256 + bytes[3]) * 256 + bytes[4]]

\* The dict appended to gps_data for the 20 bytes at p.
gps_point(d, p) ==
    [latitude  |-> unpack_f(Slice(d, p, 4)),
     longitude |-> unpack_f(Slice(d, p + 4, 4)),
     altitude  |-> unpack_f(Slice(d, p + 8, 4)),
     speed     |-> unpack_f(Slice(d, p + 12, 4)),
     speed3d   |-> unpack_f(Slice(d, p + 16, 4))]

\* The loop over range(num_points): the records read before the loop ends
\* or breaks because fewer than 20 bytes are left.
RECURSIVE read_points(_, _, _)
read_points(d, p, num_points) ==
    IF num_points = 0 \/ p + 20 > Len(d) THEN [position |-> p, points |-> << >>]
    ELSE LET rest == read_points(d, p + 20, num_points - 1)
         IN  [position |-> rest.position,
              points   |-> <<gps_point(d, p)>> \o rest.points]

\* A position left where the payload ends.
align_skipped(p) == p

\* (position + 3) & ~3
align(p) == ((p + 3) \div 4) * 4

\* An exception that is raised again where it was caught.
except_Exception_raises(raised) == raised

\* except Exception (line 86): the error is logged and the loop left; no
\* exception leaves parse_gps_data.
except_Exception(raised) == FALSE

\* One pass of the while loop from position p: the position and the points
\* after it, whether the loop is left (break), and whether an exception
\* leaves the method.
parse_gps_data_pass(d, p) ==
    LET fcc == parse_fourcc(d, p)
        sz  == parse_size(d, fcc.position)
    IN  IF fcc.raised
        THEN [position |-> fcc.position, points |-> << >>, break |-> TRUE,
              raised |-> except_Exception(fcc.raised)]
        ELSE IF fcc.none
        THEN [position |-> fcc.position, points |-> << >>, break |-> TRUE, raised |-> FALSE]
        ELSE IF sz.none \/ sz.size = 0
        THEN [position |-> sz.position, points |-> << >>, break |-> TRUE, raised |-> FALSE]
        ELSE IF fcc.fourcc = GPS5
        THEN LET rd == read_points(d, sz.position, sz.size \div 20)
             IN  [position |-> align(rd.position), points |-> rd.points,
                  break |-> FALSE, raised |-> FALSE]
        ELSE [position |-> align(sz.position + sz.size), points |-> << >>,
              break |-> FALSE, raised |-> FALSE]

\* The 4 bytes of n as a big-endian unsigned integer.
pack_I(n) ==
    <<n \div 16777216, (n \div 65536) % 256, (n \div 256) % 256, n % 256>>

\* n bytes of value b.
Fill(n, b) == [k \in 1..n |-> b]

\* A block: a 4-byte tag, the declared size, the payload, and zero bytes up
\* to the next multiple of 4.
Block(tag, size, payload) ==
    tag \o pack_I(size) \o payload \o Fill(align(Len(payload)) - Len(payload), 0)

\* Two 20-byte records: 35.5, 139.75, 12.0, 1.5, 2.0 and -33.25, 151.0,
\* 0.0, 0.5, 100.0 as big-endian singles.
RecordA ==
    <<66, 14, 0, 0,  67, 11, 192, 0,  65, 64, 0, 0,  63, 192, 0, 0,  64, 0, 0, 0>>

RecordB ==
    <<194, 5, 0, 0,  67, 23, 0, 0,  0, 0, 0, 0,  63, 0, 0, 0,  66, 200, 0, 0>>

\* The codes of the characters of 'ACCL'.
ACCL == <<65, 67, 67, 76>>

\* The blocks a buffer is made of: GPS5 blocks of one and two records, GPS5
\* blocks whose declared size is no multiple of 20 (5, 21, 24, 41 bytes) or
\* 0, and blocks of another tag of 0, 1, 4 and 6 bytes.
Blocks ==
    { Block(GPS5, 20, RecordA),
      Block(GPS5, 40, RecordA \o RecordB),
      Block(GPS5, 21, RecordB \o <<7>>),
      Block(GPS5, 41, RecordB \o RecordA \o <<7>>),
      Block(GPS5, 24, RecordA \o Fill(4, 1)),
      Block(GPS5, 5, Fill(5, 1)),
      Block(GPS5, 0, << >>),
      Block(ACCL, 0, << >>),
      Block(ACCL, 1, <<9>>),
      Block(ACCL, 4, Fill(4, 9)),
      Block(ACCL, 6, Fill(6, 9)) }

\* What follows the last block: nothing; 3, 5 or 7 bytes of a header; a byte
\* that is no ASCII; a GPS5 block of two records cut after 30 bytes of its
\* payload, and one cut after 8.
Tails ==
    { << >>,
      <<71, 80, 83>>,
      <<71, 80, 83, 53, 0>>,
      <<71, 80, 83, 53, 0, 0, 0>>,
      <<71, 200, 83, 53, 0, 0>>,
      GPS5 \o pack_I(40) \o RecordA \o SubSeq(RecordA, 1, 10),
      GPS5 \o pack_I(40) \o SubSeq(RecordA, 1, 8) }

RECURSIVE BlockSeqs(_)
BlockSeqs(n) ==
    IF n = 0 THEN { << >> }
    ELSE LET shorter == BlockSeqs(n - 1)
         IN  shorter \cup { q \o b : q \in shorter, b \in Blocks }

\* The buffers parsed: up to MaxBlocks blocks and a tail.
Buffers == { q \o tail : q \in BlockSeqs(MaxBlocks), tail \in Tails }

\* The server is not running and no conversion is called.
OnlyParser ==
    /\ request = NoRequest
    /\ pc = "idle"
    /\ scenes = << >>
    /\ transcriptions = << >>
    /\ i = 0
    /\ record_start_seconds = Zero
    /\ scene_record_times = << >>
    /\ edl_content = << >>
    /\ j = 0
    /\ srt_content = << >>
    /\ response = NoResponse
    /\ handlers = << >>
    /\ call = NoCall
    /\ DesktopIdle

\* GPMFParser.__init__ and read_binary_file: parse_gps_data is about to run.
InitParser ==
    /\ db = Database(TcNone, NoDuration, <<Tc(0, 0, 10, 0), Tc(0, 0, 20, 0)>>,
                     <<TcNone, TcNone, TcNone>>)
    /\ OnlyParser
    /\ data \in Buffers
    /\ position = 0
    /\ gps_data = << >>
    /\ parser_pc = "parsing"

\* One pass of the while loop of parse_gps_data.
ParseGpsDataPass ==
    /\ parser_pc = "parsing"
    /\ position < Len(data)
    /\ LET pass == parse_gps_data_pass(data, position)
       IN  /\ position' = pass.position
           /\ gps_data' = gps_data \o pass.points
           /\ parser_pc' = IF pass.raised THEN "raised"
                           ELSE IF pass.break THEN "returned"
                           ELSE "parsing"
    /\ UNCHANGED <<db, serverVars, handlers, call, data, desktopVars>>

\* The while condition is false: parse_gps_data returns.
ParseGpsDataEnds ==
    /\ parser_pc = "parsing"
    /\ position >= Len(data)
    /\ parser_pc' = "returned"
    /\ UNCHANGED <<db, serverVars, handlers, call, data, position, gps_data, desktopVars>>

NextParser ==
    \/ ParseGpsDataPass
    \/ ParseGpsDataEnds

SpecParser == InitParser /\ [][NextParser]_vars


\* GPMFParser.__init__: no file has been read.
InitParserNoData ==
    /\ db = Database(TcNone, NoDuration, <<Tc(0, 0, 10, 0), Tc(0, 0, 20, 0)>>,
                     <<TcNone, TcNone, TcNone>>)
    /\ OnlyParser
    /\ data = << >>
    /\ position = 0
    /\ gps_data = << >>
    /\ parser_pc = "idle"

\* read_binary_file has read the file; parse_gps_data is about to run.
ReadBinaryFile ==
    /\ parser_pc = "idle"
    /\ data' \in Buffers
    /\ parser_pc' = "parsing"
    /\ UNCHANGED <<db, serverVars, handlers, call, position, gps_data, desktopVars>>

NextParserFair ==
    \/ ReadBinaryFile
    \/ ParseGpsDataPass
    \/ ParseGpsDataEnds

\* WF_vars(ParseGpsDataPass), its ENABLED written out: a pass can be taken
\* exactly when the while condition holds, and every pass changes position
\* or parser_pc.
FairParseGpsDataPass ==
    \/ []<>(~(parser_pc = "parsing" /\ position < Len(data)))
    \/ []<><<ParseGpsDataPass>>_vars

\* The script runs in one thread that keeps executing: a step that can be
\* taken is taken.
SpecParserFair ==
    /\ InitParserNoData
    /\ [][NextParserFair]_vars
    /\ WF_vars(ReadBinaryFile)
    /\ WF_vars(ParseGpsDataEnds)
    /\ FairParseGpsDataPass

\* --------------------------------------------- export_srt (POST /api/export/srt)

\* The JSON body of a request to export_srt.  shape "ok": transcription_ids
\* is a list of integers; "no_transcription_ids", "not_list", "non_int" as
\* for scene_pks.
SrtRequest(shape, transcription_ids) ==
    [endpoint |-> "srt", shape |-> shape, scene_pks |-> << >>, format |-> "",
     transcription_ids |-> transcription_ids]

\* export_srt's transcriptions query: WHERE t.id IN (...) ORDER BY t.id.  A
\* transcription's video_id is the video of its scene.
srt_transcriptions_query(d, safe_ids) ==
    LET S == { [rowid |-> id,
                row   |-> [id             |-> id,
                           video_id       |-> d.scenes[d.transcriptions[id].scene_id].video_id,
                           start_timecode |-> d.transcriptions[id].start_timecode,
                           end_timecode   |-> d.transcriptions[id].end_timecode]]
               : id \in DOMAIN d.transcriptions \cap Range(safe_ids) }
    IN  Rows(OrderByKey(S, [x \in S |-> x.rowid]))

\* export_srt's scenes query: every scene of the videos of the
\* transcriptions found, ORDER BY s.video_id, s.scene_id.
srt_scenes_query(d, video_ids) ==
    LET S == WithRowid(JoinedRows(d, { id \in DOMAIN d.scenes :
                                          d.scenes[id].video_id \in video_ids }))
    IN  Rows(OrderByKey(S, [x \in S |-> x.row.video_id * 1000 + x.row.scene_id]))

\* The body of export_srt's scene loop: the scene's place on the record
\* timeline, cursor being record_start_seconds.
srt_scene_record(scene, cursor) ==
    LET offset_sec         == offset_seconds(scene)
        source_start_sec   == timecode_to_seconds(scene.start_timecode, source_frame_rate)
        source_end_sec     == timecode_to_seconds(scene.end_timecode, source_frame_rate)
        adjusted_start_sec == TAdd(source_start_sec, offset_sec)
        end_sec            == TAdd(source_end_sec, offset_sec)
        clip_end_sec       == TAdd(offset_sec, scene.duration_seconds.sec)
        adjusted_end_sec   == IF scene.duration_seconds.known /\ TLt(clip_end_sec, end_sec)
                              THEN clip_end_sec ELSE end_sec
        duration_sec       == TMax(Zero, TSub(adjusted_end_sec, adjusted_start_sec))
        source_duration_sec == IF TLt(duration_sec, T(60 \div source_frame_rate, 0))
                               THEN T(60 \div source_frame_rate, 0)
                               ELSE duration_sec
    IN  [video_id       |-> scene.video_id,
         record_in_sec  |-> cursor,
         record_out_sec |-> TAdd(cursor, source_duration_sec)]

\* video_record_offsets.get(video_id, 0.0)
record_offset_of(video_record_offsets, video_id) ==
    IF video_id \in DOMAIN video_record_offsets
    THEN video_record_offsets[video_id]
    ELSE Zero

\* The cue export_srt writes for transcriptions[k] (k counts from 1).
export_srt_cue(trans, k, video_record_offsets) ==
    LET start_sec         == timecode_to_seconds(trans.start_timecode, source_frame_rate)
        end_sec           == timecode_to_seconds(trans.end_timecode, source_frame_rate)
        record_offset_sec == record_offset_of(video_record_offsets, trans.video_id)
    IN  [srt_idx   |-> k,
         trans_id  |-> trans.id,
         start_srt |-> seconds_to_srt_timecode(TAdd(start_sec, record_offset_sec)),
         end_srt   |-> seconds_to_srt_timecode(TAdd(end_sec, record_offset_sec))]

\* ------------------------------- requests served at once, one thread each

\* The threads of the server that serve a request at the same time.
Threads == {1, 2}

\* The local variables of a handler, before its first statement.
Frame(req) ==
    [request |-> req, pc |-> "idle", scenes |-> << >>, transcriptions |-> << >>,
     i |-> 0, record_start_seconds |-> Zero, scene_record_times |-> << >>,
     video_record_offsets |-> << >>, edl_content |-> << >>, j |-> 0,
     srt_content |-> << >>, response |-> NoResponse]

\* return: the handler ends with the response resp.
Returns(h, resp) == [h EXCEPT !.pc = "done", !.response = resp]

\* export_combined up to the scene loop, on the locals h.
export_combined_begin(d, h) ==
    LET req == h.request
    IN  IF req.shape = "no_scene_pks" \/ req.format = ""
        THEN Returns(h, Error(400))
        ELSE IF req.shape = "not_list" \/ (req.shape = "ok" /\ req.scene_pks = << >>)
        THEN Returns(h, Error(400))
        ELSE IF req.format \notin {"EDL", "SRT"}
        THEN Returns(h, Error(400))
        ELSE IF req.shape = "non_int"
        THEN Returns(h, Error(500))
        ELSE LET found == combined_scenes_query(d, req.scene_pks)
             IN  IF found = << >>
                 THEN Returns(h, Error(404))
                 ELSE [h EXCEPT
                         !.pc = "combined_scenes",
                         !.scenes = found,
                         !.transcriptions =
                             IF req.format = "SRT"
                             THEN transcriptions_query(
                                      d, { found[k].scene_pk : k \in 1..Len(found) })
                             ELSE << >>]

\* export_srt up to the scene loop, on the locals h.
export_srt_begin(d, h) ==
    LET req == h.request
    IN  IF req.shape = "no_transcription_ids" \/ req.shape = "not_list"
        THEN Returns(h, Error(400))
        ELSE IF req.shape = "ok" /\ req.transcription_ids = << >>
        THEN Returns(h, Error(400))
        ELSE IF req.shape = "non_int"
        THEN \* int(tid) raises ValueError
             Returns(h, Error(400))
        ELSE LET found == srt_transcriptions_query(d, req.transcription_ids)
                 video_ids == { found[k].video_id : k \in 1..Len(found) }
             IN  [h EXCEPT !.pc = "srt_scenes",
                           !.transcriptions = found,
                           !.scenes = srt_scenes_query(d, video_ids)]

\* A record cursor that is one variable of the first thread, read by all.
cursor_of_first_thread(hs, p) == hs[1].record_start_seconds

\* The record cursor that the handler of thread p reads: the local variable
\* record_start_seconds of its own call.
cursor_of(hs, p) == hs[p].record_start_seconds

\* One iteration of export_combined's scene loop on the locals h, the cursor
\* read being cursor.
export_combined_scene(h, cursor) ==
    LET scene == h.scenes[h.i + 1]
    IN  IF scene_raises(scene)
        THEN Returns(h, Error(500))
        ELSE LET ev == scene_event(scene, h.i, cursor)
             IN  [h EXCEPT
                     !.edl_content = Append(@, ev),
                     !.scene_record_times =
                         Append(@, [scene_pk     |-> ev.scene_pk,
                                    record_in    |-> ev.record_in_sec,
                                    record_out   |-> ev.record_out_sec,
                                    source_start |-> ev.source_start_sec]),
                     !.record_start_seconds = ev.record_out_sec,
                     !.i = @ + 1]

\* One iteration of export_combined's loop over scene_record_times.
export_combined_srt_scene(h) ==
    LET time_info   == h.scene_record_times[h.j + 1]
        scene_trans == SelectSeq(h.transcriptions,
                                 LAMBDA tr : tr.scene_id = time_info.scene_pk)
    IN  IF \E k \in 1..Len(scene_trans) : trans_raises(scene_trans[k])
        THEN Returns(h, Error(500))
        ELSE [h EXCEPT
                 !.srt_content = @ \o cues_of(scene_trans, time_info, Len(@) + 1),
                 !.j = @ + 1]

\* One iteration of export_srt's scene loop on the locals h.
export_srt_scene(h, cursor) ==
    LET scene == h.scenes[h.i + 1]
    IN  IF scene_raises(scene)
        THEN Returns(h, Error(500))
        ELSE LET rec == srt_scene_record(scene, cursor)
             IN  [h EXCEPT
                     !.video_record_offsets = (rec.video_id :> rec.record_in_sec) @@ @,
                     !.record_start_seconds = rec.record_out_sec,
                     !.i = @ + 1]

\* export_srt after the scene loop: the cue loop and the return.
export_srt_cues(h) ==
    IF \E k \in 1..Len(h.transcriptions) : trans_raises(h.transcriptions[k])
    THEN Returns(h, Error(500))
    ELSE Returns([h EXCEPT !.srt_content =
                               [k \in 1..Len(h.transcriptions) |->
                                   export_srt_cue(h.transcriptions[k], k,
                                                  h.video_record_offsets)]],
                 [status |-> 200, body |-> "srt"])

\* The databases of the concurrent runs: one where every export succeeds on
\* videos with an offset and a duration, one with a timecode that raises.
ConcurrentDatabases ==
    { Database(Tc(0, 0, 1, 0), Duration(Sec(15, 0)),
               <<Tc(0, 0, 10, 0), Tc(0, 0, 20, 0)>>,
               <<Tc(0, 0, 2, 0), Tc(0, 0, 5, 0), Tc(0, 0, 3, 0)>>),
      Database(TcNone, Duration(T(600, 30000000)),
               <<Tc(0, 0, 10, 0), Tc(0, 0, 20, 0)>>,
               <<Tc(0, 0, 1, 0), TcHuge, Tc(0, 0, 3, 0)>>) }

\* The requests of the concurrent runs, all with the same keys.
ConcurrentRequests ==
    { Request("combined", "ok", pks, fmt) @@ [transcription_ids |-> << >>] :
          pks \in (SeqsUpTo({2, 3}, MaxPks) \ { << >> }) \cup { <<1>>, <<4>> },
          fmt \in {"EDL", "SRT"} }
    \cup { Request("combined", "non_int", << >>, "EDL") @@ [transcription_ids |-> << >>],
           Request("combined", "ok", <<1>>, "") @@ [transcription_ids |-> << >>] }
    \cup { SrtRequest("ok", ids) : ids \in { <<1>>, <<5, 1>>, <<7>>, <<2, 7>>, <<9>>, << >> } }
    \cup { SrtRequest("no_transcription_ids", << >>), SrtRequest("non_int", << >>) }

\* No request is being served by the thread.
Idle == Frame(NoRequest @@ [transcription_ids |-> << >>])

InitConcurrent ==
    /\ db \in ConcurrentDatabases
    /\ request = NoRequest
    /\ pc = "idle"
    /\ scenes = << >>
    /\ transcriptions = << >>
    /\ i = 0
    /\ record_start_seconds = Zero
    /\ scene_record_times = << >>
    /\ edl_content = << >>
    /\ j = 0
    /\ srt_content = << >>
    /\ response = NoResponse
    /\ handlers = [p \in Threads |-> Idle]
    /\ call = NoCall
    /\ data = << >>
    /\ position = 0
    /\ gps_data = << >>
    /\ parser_pc = "idle"
    /\ DesktopIdle

\* Thread p takes the step that changes its handler's locals to h.
ThreadStep(p, h) ==
    /\ handlers' = [handlers EXCEPT ![p] = h]
    /\ UNCHANGED <<db, serverVars, call, parserVars, desktopVars>>

\* A thread starts export_combined for a request that arrives.
ThreadExportCombinedRequest ==
    \E p \in Threads, req \in ConcurrentRequests :
        /\ handlers[p].pc = "idle"
        /\ req.endpoint = "combined"
        /\ ThreadStep(p, export_combined_begin(db, Frame(req)))

\* A thread starts export_srt for a request that arrives.
ThreadExportSrtRequest ==
    \E p \in Threads, req \in ConcurrentRequests :
        /\ handlers[p].pc = "idle"
        /\ req.endpoint = "srt"
        /\ ThreadStep(p, export_srt_begin(db, Frame(req)))

ThreadExportCombinedScene ==
    \E p \in Threads :
        /\ handlers[p].pc = "combined_scenes"
        /\ handlers[p].i < Len(handlers[p].scenes)
        /\ ThreadStep(p, export_combined_scene(handlers[p], cursor_of(handlers, p)))

ThreadExportCombinedReturnEdl ==
    \E p \in Threads :
        /\ handlers[p].pc = "combined_scenes"
        /\ handlers[p].i = Len(handlers[p].scenes)
        /\ handlers[p].request.format = "EDL"
        /\ ThreadStep(p, Returns(handlers[p], [status |-> 200, body |-> "edl"]))

ThreadExportCombinedSrtScene ==
    \E p \in Threads :
        /\ handlers[p].pc = "combined_scenes"
        /\ handlers[p].i = Len(handlers[p].scenes)
        /\ handlers[p].request.format = "SRT"
        /\ handlers[p].j < Len(handlers[p].scene_record_times)
        /\ ThreadStep(p, export_combined_srt_scene(handlers[p]))

ThreadExportCombinedReturnSrt ==
    \E p \in Threads :
        /\ handlers[p].pc = "combined_scenes"
        /\ handlers[p].i = Len(handlers[p].scenes)
        /\ handlers[p].request.format = "SRT"
        /\ handlers[p].j = Len(handlers[p].scene_record_times)
        /\ ThreadStep(p, Returns(handlers[p], [status |-> 200, body |-> "srt"]))

ThreadExportSrtScene ==
    \E p \in Threads :
        /\ handlers[p].pc = "srt_scenes"
        /\ handlers[p].i < Len(handlers[p].scenes)
        /\ ThreadStep(p, export_srt_scene(handlers[p], cursor_of(handlers, p)))

ThreadExportSrtCues ==
    \E p \in Threads :
        /\ handlers[p].pc = "srt_scenes"
        /\ handlers[p].i = Len(handlers[p].scenes)
        /\ ThreadStep(p, export_srt_cues(handlers[p]))

\* The response of a thread has been sent: its locals are gone.
ThreadServed ==
    \E p \in Threads :
        /\ handlers[p].pc = "done"
        /\ ThreadStep(p, Idle)

NextConcurrent ==
    \/ ThreadExportCombinedRequest
    \/ ThreadExportSrtRequest
    \/ ThreadExportCombinedScene
    \/ ThreadExportCombinedReturnEdl
    \/ ThreadExportCombinedSrtScene
    \/ ThreadExportCombinedReturnSrt
    \/ ThreadExportSrtScene
    \/ ThreadExportSrtCues
    \/ ThreadServed

SpecConcurrent == InitConcurrent /\ [][NextConcurrent]_vars


\* -------------------------------------- thumbnail_viewer.py: ThumbnailGrid

\* The scene dicts given to load_scenes, by scene_id.
GridSceneIds == {1, 2, 3}

\* ThumbnailItem(scene, base_dir): the widget of one scene.
ThumbnailItem(scene) == [scene_data |-> scene]

\* A clear that leaves the items where they are.
clear_keeps_items(items) == items

\* ThumbnailGrid.clear: every item is removed from the layout and the list
\* is a new empty list.
clear(items) == << >>

\* columns = 3
columns == 3

\* The loop of load_scenes: the items appended to the list items, each
\* placed at row n // columns, column n % columns (n is the loop's i).
RECURSIVE load_scenes_loop(_, _, _, _)
load_scenes_loop(items, layout, scenes_given, n) ==
    IF n = Len(scenes_given) THEN [thumbnail_items |-> items, grid_layout |-> layout]
    ELSE LET thumbnail == ThumbnailItem(scenes_given[n + 1])
         IN  load_scenes_loop(Append(items, thumbnail),
                              Append(layout, [widget |-> thumbnail,
                                              row    |-> n \div columns,
                                              col    |-> n % columns]),
                              scenes_given, n + 1)

\* The server, the conversions, the parser and the other desktop programs
\* are not running.
OnlyDesktop ==
    /\ db = Database(TcNone, NoDuration, <<Tc(0, 0, 10, 0), Tc(0, 0, 20, 0)>>,
                     <<TcNone, TcNone, TcNone>>)
    /\ request = NoRequest
    /\ pc = "idle"
    /\ scenes = << >>
    /\ transcriptions = << >>
    /\ i = 0
    /\ record_start_seconds = Zero
    /\ scene_record_times = << >>
    /\ edl_content = << >>
    /\ j = 0
    /\ srt_content = << >>
    /\ response = NoResponse
    /\ handlers = << >>
    /\ call = NoCall
    /\ data = << >>
    /\ position = 0
    /\ gps_data = << >>
    /\ parser_pc = "idle"

InitGrid ==
    /\ OnlyDesktop
    /\ DesktopIdle

\* ThumbnailGrid.load_scenes(scenes, base_dir)
LoadScenes ==
    \E scenes_given \in SeqsUpTo(GridSceneIds, MaxScenes) :
        LET cleared == clear(thumbnail_items)
            layout  == SelectSeq(grid_layout,
                                 LAMBDA w : w.widget \notin Range(thumbnail_items))
            loaded  == load_scenes_loop(cleared, layout, scenes_given, 0)
        IN  /\ thumbnail_items' = loaded.thumbnail_items
            /\ grid_layout' = loaded.grid_layout
            /\ load_scenes_call' = [scenes |-> scenes_given,
                                    items_before |-> Len(thumbnail_items)]
            /\ UNCHANGED besidesGrid

NextGrid == LoadScenes

SpecGrid == InitGrid /\ [][NextGrid]_vars


\* ------------------------------------------- qtapp.py: continuous play

\* The rows of the table, by scene PK.  The stop timer is set for a scene
\* whose end timecode is after its start timecode (duration_sec > 0): rows 1
\* and 2; row 3 has no duration and plays to the end of its file.
TableRows == 1..MaxSelected

duration_positive(scene) == scene # 3

\* _get_selected_rows_data: the rows selected, in table order.
RECURSIVE SortedSeq(_)
SortedSeq(S) ==
    IF S = {} THEN << >>
    ELSE LET m == CHOOSE x \in S : \A y \in S : x <= y
         IN  <<m>> \o SortedSeq(S \ {m})

Selections == { SortedSeq(S) : S \in SUBSET TableRows \ { {} } }

\* continuous_play_list[idx] on line 1007 raises IndexError unless idx is an
\* index of the list (idx is never negative).
index_in_range(idx, list) == idx < Len(list)

\* _play_scene_by_index(idx), run on the GUI thread: line 1007 reads
\* continuous_play_list[idx] before the test of line 1008; then
\* vlc_player.play replaces the player, stops the timer, and starts it again
\* when the scene has a duration.
play_scene_by_index(idx) ==
    IF ~index_in_range(idx, continuous_play_list)
    THEN /\ gui_thread' = [pc |-> "IndexError", tmp |-> idx]
         /\ UNCHANGED <<mediaplayer, stop_timer, started>>
    ELSE LET scene_data == continuous_play_list[idx + 1]
         IN  /\ mediaplayer' = [scene |-> scene_data, state |-> "playing"]
             /\ stop_timer' = duration_positive(scene_data)
             /\ started' = Append(started, idx)
             /\ gui_thread' = NoHandler

\* Nothing is playing and nothing is pending.
Quiescent ==
    /\ gui_thread = NoHandler
    /\ vlc_thread = NoHandler
    /\ play_next_queue = << >>
    /\ ~stop_timer
    /\ mediaplayer.state # "playing"

\* _play_selected_scene with the rows selected.
play_selected_scene(selected_data) ==
    /\ gui_thread = NoHandler
    /\ continuous_play_list' = selected_data
    /\ continuous_play_index' = 0
    /\ LET idx == 0
       IN  /\ mediaplayer' = [scene |-> selected_data[idx + 1], state |-> "playing"]
           /\ stop_timer' = duration_positive(selected_data[idx + 1])
           /\ started' = <<idx>>
    /\ UNCHANGED <<gui_thread, vlc_thread, play_next_queue>>
    /\ UNCHANGED besidesQt

\* The user starts a continuous play when nothing is playing.
PlaySelectedScene ==
    \E selected_data \in Selections :
        /\ Quiescent
        /\ continuous_play_list = << >>
        /\ play_selected_scene(selected_data)

\* The user starts a continuous play while another one is going on.
PlaySelectedSceneAgain ==
    \E selected_data \in Selections :
        /\ ~(Quiescent /\ continuous_play_list = << >>)
        /\ Len(play_next_queue) <= MaxPending
        /\ play_selected_scene(selected_data)

\* _hide_preview: the close button of the preview.
HidePreview ==
    /\ gui_thread = NoHandler
    /\ mediaplayer.state # "none"
    /\ Len(play_next_queue) <= MaxPending
    /\ stop_timer' = FALSE
    /\ mediaplayer' = [mediaplayer EXCEPT !.state = IF @ = "playing" THEN "stopped" ELSE @]
    /\ continuous_play_list' = << >>
    /\ continuous_play_index' = 0
    /\ UNCHANGED <<gui_thread, vlc_thread, play_next_queue, started>>
    /\ UNCHANGED besidesQt

\* The stop timer fires: _on_stop_timer_timeout starts with self.stop().
StopTimerTimeout ==
    /\ gui_thread = NoHandler
    /\ stop_timer
    /\ stop_timer' = FALSE
    /\ mediaplayer' = [mediaplayer EXCEPT !.state = IF @ = "playing" THEN "stopped" ELSE @]
    /\ gui_thread' = [pc |-> "timeout_test", tmp |-> 0]
    /\ UNCHANGED <<continuous_play_list, continuous_play_index, play_next_queue,
                   vlc_thread, started>>
    /\ UNCHANGED besidesQt

\* line 244: if continuous_play_index + 1 < len(continuous_play_list)
StopTimerTest ==
    /\ gui_thread.pc = "timeout_test"
    /\ gui_thread' = IF continuous_play_index + 1 < Len(continuous_play_list)
                     THEN [pc |-> "timeout_read", tmp |-> 0]
                     ELSE NoHandler
    /\ UNCHANGED <<continuous_play_list, continuous_play_index, mediaplayer, stop_timer,
                   play_next_queue, vlc_thread, started>>
    /\ UNCHANGED besidesQt

\* line 245, continuous_play_index += 1: the attribute is read
StopTimerRead ==
    /\ gui_thread.pc = "timeout_read"
    /\ gui_thread' = [pc |-> "timeout_write", tmp |-> continuous_play_index]
    /\ UNCHANGED <<continuous_play_list, continuous_play_index, mediaplayer, stop_timer,
                   play_next_queue, vlc_thread, started>>
    /\ UNCHANGED besidesQt

\* line 245, continuous_play_index += 1: the sum is stored
StopTimerWrite ==
    /\ gui_thread.pc = "timeout_write"
    /\ continuous_play_index' = gui_thread.tmp + 1
    /\ gui_thread' = [pc |-> "timeout_emit", tmp |-> 0]
    /\ UNCHANGED <<continuous_play_list, mediaplayer, stop_timer, play_next_queue,
                   vlc_thread, started>>
    /\ UNCHANGED besidesQt

\* line 246: play_next_signal is emitted on the GUI thread, so the slot
\* _play_scene_by_index runs at once.
StopTimerEmit ==
    /\ gui_thread.pc = "timeout_emit"
    /\ play_scene_by_index(continuous_play_index)
    /\ UNCHANGED <<continuous_play_list, continuous_play_index, play_next_queue, vlc_thread>>
    /\ UNCHANGED besidesQt

\* The GUI thread's event loop delivers a queued play_next_signal.
DeliverPlayNext ==
    /\ gui_thread = NoHandler
    /\ play_next_queue # << >>
    /\ play_next_queue' = Tail(play_next_queue)
    /\ play_scene_by_index(Head(play_next_queue))
    /\ UNCHANGED <<continuous_play_list, continuous_play_index, vlc_thread>>
    /\ UNCHANGED besidesQt

\* The media reaches its end: VLC calls _on_vlc_end_reached on its thread.
VlcEndReached ==
    /\ vlc_thread = NoHandler
    /\ mediaplayer.state = "playing"
    /\ mediaplayer' = [mediaplayer EXCEPT !.state = "ended"]
    /\ vlc_thread' = [pc |-> "end_test", tmp |-> 0]
    /\ UNCHANGED <<continuous_play_list, continuous_play_index, stop_timer,
                   play_next_queue, gui_thread, started>>
    /\ UNCHANGED besidesQt

\* line 1044: if continuous_play_index + 1 < len(continuous_play_list)
VlcEndTest ==
    /\ vlc_thread.pc = "end_test"
    /\ vlc_thread' = IF continuous_play_index + 1 < Len(continuous_play_list)
                     THEN [pc |-> "end_read", tmp |-> 0]
                     ELSE [pc |-> "end_reset_list", tmp |-> 0]
    /\ UNCHANGED <<continuous_play_list, continuous_play_index, mediaplayer, stop_timer,
                   play_next_queue, gui_thread, started>>
    /\ UNCHANGED besidesQt

\* line 1045, continuous_play_index += 1: the attribute is read
VlcEndRead ==
    /\ vlc_thread.pc = "end_read"
    /\ vlc_thread' = [pc |-> "end_write", tmp |-> continuous_play_index]
    /\ UNCHANGED <<continuous_play_list, continuous_play_index, mediaplayer, stop_timer,
                   play_next_queue, gui_thread, started>>
    /\ UNCHANGED besidesQt

\* line 1045, continuous_play_index += 1: the sum is stored
VlcEndWrite ==
    /\ vlc_thread.pc = "end_write"
    /\ continuous_play_index' = vlc_thread.tmp + 1
    /\ vlc_thread' = [pc |-> "end_emit", tmp |-> 0]
    /\ UNCHANGED <<continuous_play_list, mediaplayer, stop_timer, play_next_queue,
                   gui_thread, started>>
    /\ UNCHANGED besidesQt

\* line 1047: play_next_signal is emitted off the GUI thread, so the call of
\* the slot is queued.
VlcEndEmit ==
    /\ vlc_thread.pc = "end_emit"
    /\ play_next_queue' = Append(play_next_queue, continuous_play_index)
    /\ vlc_thread' = NoHandler
    /\ UNCHANGED <<continuous_play_list, continuous_play_index, mediaplayer, stop_timer,
                   gui_thread, started>>
    /\ UNCHANGED besidesQt

\* line 1051: continuous_play_list = []
VlcEndResetList ==
    /\ vlc_thread.pc = "end_reset_list"
    /\ continuous_play_list' = << >>
    /\ vlc_thread' = [pc |-> "end_reset_index", tmp |-> 0]
    /\ UNCHANGED <<continuous_play_index, mediaplayer, stop_timer, play_next_queue,
                   gui_thread, started>>
    /\ UNCHANGED besidesQt

\* line 1052: continuous_play_index = 0
VlcEndResetIndex ==
    /\ vlc_thread.pc = "end_reset_index"
    /\ continuous_play_index' = 0
    /\ vlc_thread' = NoHandler
    /\ UNCHANGED <<continuous_play_list, mediaplayer, stop_timer, play_next_queue,
                   gui_thread, started>>
    /\ UNCHANGED besidesQt

InitQt ==
    /\ OnlyDesktop
    /\ DesktopIdle

\* What the program does by itself once a play has begun.
ContinuousPlayStep ==
    \/ StopTimerTimeout
    \/ StopTimerTest
    \/ StopTimerRead
    \/ StopTimerWrite
    \/ StopTimerEmit
    \/ DeliverPlayNext
    \/ VlcEndReached
    \/ VlcEndTest
    \/ VlcEndRead
    \/ VlcEndWrite
    \/ VlcEndEmit
    \/ VlcEndResetList
    \/ VlcEndResetIndex

\* A continuous play that the user leaves alone until it is over.
NextContinuousPlay ==
    \/ PlaySelectedScene
    \/ ContinuousPlayStep

SpecContinuousPlay == InitQt /\ [][NextContinuousPlay]_vars

\* The timer fires, the threads run and queued signals are delivered; the
\* media need not reach its end and the user need not do anything.
SpecContinuousPlayFair ==
    /\ SpecContinuousPlay
    /\ WF_vars(StopTimerTimeout)
    /\ WF_vars(StopTimerTest \/ StopTimerRead \/ StopTimerWrite \/ StopTimerEmit)
    /\ WF_vars(DeliverPlayNext)
    /\ WF_vars(VlcEndTest \/ VlcEndRead \/ VlcEndWrite \/ VlcEndEmit
                  \/ VlcEndResetList \/ VlcEndResetIndex)

\* The user may also close the preview or start another play at any time.
NextQt ==
    \/ NextContinuousPlay
    \/ PlaySelectedSceneAgain
    \/ HidePreview

SpecQt == InitQt /\ [][NextQt]_vars

\* ------------------------------------------- video_preview_app: the playlist

\* The scene_id of the scenes that get_all_scenes returns (one video).
PreviewScenes == 1..MaxRows

\* Column 7 of a row: the duration of the scene, in seconds.
scene_length(scene) == CASE scene = 1 -> 20 [] scene = 2 -> 30 [] scene = 3 -> 10
                         [] OTHER -> 10 + scene

\* The number a NumericTableWidgetItem of the column compares by.
column_key(column, scene) == IF column = "scene" THEN scene ELSE scene_length(scene)

SortColumns == {"scene", "scene_length"}

\* The rows in the order of the column, ascending or descending (the keys of a
\* column are all different).
RECURSIVE sorted_rows(_, _, _)
sorted_rows(rows, column, descending) ==
    IF rows = {} THEN << >>
    ELSE LET first == CHOOSE r \in rows : \A o \in rows :
                          IF descending
                          THEN column_key(column, r.scene) >= column_key(column, o.scene)
                          ELSE column_key(column, r.scene) <= column_key(column, o.scene)
         IN  <<first>> \o sorted_rows(rows \ {first}, column, descending)

SeqRange(seq) == {seq[k] : k \in 1..Len(seq)}

\* scene_table_widget.item(row, 0) is not None (rows count from 0).
has_item(table, row) == row >= 0 /\ row < Len(table)

\* The row where the table shows the scene, or -1.
row_of(table, scene) ==
    IF \E k \in 1..Len(table) : table[k].scene = scene
    THEN (CHOOSE k \in 1..Len(table) : table[k].scene = scene) - 1
    ELSE -1

\* The row of the current item once the rows are those of table_after.
current_row_in(table_after) ==
    IF has_item(scene_table, current_row)
    THEN row_of(table_after, scene_table[current_row + 1].scene)
    ELSE -1

\* populate_scene_table: one unchecked row per scene, by video_id and scene_id.
populate_scene_table(n) == [r \in 1..n |-> [scene |-> r, checked |-> FALSE]]

\* on_table_cell_clicked(row, column): the scene of the row as it is now is
\* loaded into the player and played; nothing happens when the row has no item.
on_table_cell_clicked(row) ==
    IF has_item(scene_table, row)
    THEN /\ current_scene' = scene_table[row + 1].scene
         /\ player_playing' = TRUE
    ELSE UNCHANGED <<current_scene, player_playing>>

\* play_selected_sequentially: the checked rows in the order shown, each with
\* the number of its row.
RECURSIVE checked_scenes_playlist(_, _)
checked_scenes_playlist(table, row) ==
    IF row >= Len(table) THEN << >>
    ELSE (IF table[row + 1].checked
          THEN <<[data |-> table[row + 1].scene, row |-> row]>>
          ELSE << >>) \o checked_scenes_playlist(table, row + 1)

\* play_selected_sequentially: the place in the playlist of the current row
\* when it is checked, otherwise 0.
start_playlist_index(table, playlist, selected_row) ==
    IF /\ has_item(table, selected_row)
       /\ table[selected_row + 1].checked
       /\ \E k \in 1..Len(playlist) : playlist[k].data = table[selected_row + 1].scene
    THEN (CHOOSE k \in 1..Len(playlist) :
              /\ playlist[k].data = table[selected_row + 1].scene
              /\ \A m \in 1..(k - 1) : playlist[m].data # table[selected_row + 1].scene) - 1
    ELSE 0

\* play_next_in_playlist at the end of the playlist: the index set back.
playlist_finished_index_kept(index) == index

playlist_finished_index(index) == -1

\* All variables but those of video_preview_app are those of InitGrid.
InitPreview ==
    /\ OnlyDesktop
    /\ DesktopIdle

\* load_database: the table is filled.
LoadDatabase ==
    /\ scene_table = << >>
    /\ last_slot = "none"
    /\ \E n \in 1..MaxRows : scene_table' = populate_scene_table(n)
    /\ last_slot' = "load_database"
    /\ UNCHANGED <<current_row, playback_playlist, current_playlist_index, current_scene,
                   player_playing, finished_queue, clear_pending>>
    /\ UNCHANGED besidesPreview

\* The user checks or unchecks the box of a row.
CheckRow ==
    /\ \E row \in 0..(Len(scene_table) - 1) :
           scene_table' = [scene_table EXCEPT ![row + 1].checked = ~scene_table[row + 1].checked]
    /\ UNCHANGED <<current_row, playback_playlist, current_playlist_index, current_scene,
                   player_playing, finished_queue, clear_pending, last_slot>>
    /\ UNCHANGED besidesPreview

\* cellClicked: the user clicks a cell of a row.
CellClicked ==
    /\ \E row \in 0..(Len(scene_table) - 1) :
           /\ current_row' = row
           /\ on_table_cell_clicked(row)
    /\ last_slot' = "on_table_cell_clicked"
    /\ UNCHANGED <<scene_table, playback_playlist, current_playlist_index,
                   finished_queue, clear_pending>>
    /\ UNCHANGED besidesPreview

\* The user clicks the header of a column: the rows are sorted (sorting is
\* enabled at the end of populate_scene_table).
SortTable ==
    /\ Len(scene_table) > 0
    /\ \E column \in SortColumns, descending \in BOOLEAN :
           LET table_after == sorted_rows(SeqRange(scene_table), column, descending)
           IN  /\ scene_table' = table_after
               /\ current_row' = current_row_in(table_after)
    /\ UNCHANGED <<playback_playlist, current_playlist_index, current_scene,
                   player_playing, finished_queue, clear_pending, last_slot>>
    /\ UNCHANGED besidesPreview

\* delete_selected_scenes, answered with Yes: the checked rows are removed and
\* clear_player_and_info is scheduled.
DeleteSelectedScenes ==
    /\ \E k \in 1..Len(scene_table) : scene_table[k].checked
    /\ LET table_after == SelectSeq(scene_table, LAMBDA r : ~r.checked)
       IN  /\ scene_table' = table_after
           /\ current_row' = current_row_in(table_after)
    /\ clear_pending' = TRUE
    /\ UNCHANGED <<playback_playlist, current_playlist_index, current_scene,
                   player_playing, finished_queue, last_slot>>
    /\ UNCHANGED besidesPreview

\* clear_player_and_info, 50 ms after a deletion
ClearPlayerAndInfo ==
    /\ clear_pending
    /\ clear_pending' = FALSE
    /\ current_scene' = 0
    /\ player_playing' = FALSE
    /\ last_slot' = "clear_player_and_info"
    /\ UNCHANGED <<scene_table, current_row, playback_playlist, current_playlist_index,
                   finished_queue>>
    /\ UNCHANGED besidesPreview

\* play_selected_sequentially
PlaySelectedSequentially ==
    /\ Len(scene_table) > 0
    /\ LET playlist == checked_scenes_playlist(scene_table, 0)
           start == start_playlist_index(scene_table, playlist, current_row)
       IN  IF playlist = << >>
           THEN /\ playback_playlist' = NoPlaylist
                /\ current_playlist_index' = -1
                /\ UNCHANGED <<current_scene, player_playing, last_slot>>
           ELSE /\ playback_playlist' = [is_none |-> FALSE, items |-> playlist]
                /\ current_playlist_index' = start
                /\ on_table_cell_clicked(playlist[start + 1].row)
                /\ last_slot' = "play_selected_sequentially"
    /\ UNCHANGED <<scene_table, current_row, finished_queue, clear_pending>>
    /\ UNCHANGED besidesPreview

\* VideoPlayer emits playbackFinished (the end time of the scene or the end of
\* the media is reached); the connection is queued.
PlaybackFinished ==
    /\ player_playing
    /\ finished_queue < MaxPending
    /\ player_playing' = FALSE
    /\ finished_queue' = finished_queue + 1
    /\ UNCHANGED <<scene_table, current_row, playback_playlist, current_playlist_index,
                   current_scene, clear_pending, last_slot>>
    /\ UNCHANGED besidesPreview

\* play_next_in_playlist, the slot of playbackFinished
PlayNextInPlaylist ==
    /\ finished_queue > 0
    /\ finished_queue' = finished_queue - 1
    /\ IF playback_playlist.is_none \/ current_playlist_index < 0
       THEN UNCHANGED <<playback_playlist, current_playlist_index, current_scene,
                        player_playing, last_slot>>
       ELSE LET next_index == current_playlist_index + 1
            IN  IF next_index < Len(playback_playlist.items)
                THEN /\ current_playlist_index' = next_index
                     /\ on_table_cell_clicked(playback_playlist.items[next_index + 1].row)
                     /\ last_slot' = "play_next_in_playlist"
                     /\ UNCHANGED playback_playlist
                ELSE /\ playback_playlist' = NoPlaylist
                     /\ current_playlist_index' = playlist_finished_index(current_playlist_index)
                     /\ UNCHANGED <<current_scene, player_playing, last_slot>>
    /\ UNCHANGED <<scene_table, current_row, clear_pending>>
    /\ UNCHANGED besidesPreview

NextPreview ==
    \/ LoadDatabase
    \/ CheckRow
    \/ CellClicked
    \/ SortTable
    \/ DeleteSelectedScenes
    \/ ClearPlayerAndInfo
    \/ PlaySelectedSequentially
    \/ PlaybackFinished
    \/ PlayNextInPlaylist

SpecPreview == InitPreview /\ [][NextPreview]_vars

\* ------------------------------------------------- VideoPlayer: the seek

\* load_video_for_scene: end_ms of a scene that starts at start_ms.
end_of(start_ms) == start_ms + 1

\* VideoPlayer.is_playing
is_playing == vlc_state = "Playing"

\* VideoPlayer.set_position(position_ms), with what VLC knows of the media at
\* that time.
set_position(position_ms) ==
    Append(seeks, [position |-> position_ms, media |-> media,
                   playing |-> is_playing, length_known |-> length_posted])

InitPlayer ==
    /\ OnlyDesktop
    /\ DesktopIdle

\* load_video(video_path), set_playback_range(start_ms, end_ms) and
\* play_pause(), called in a row by load_video_for_scene.
LoadVideoAndPlay ==
    /\ media < MaxLoads
    /\ \E start_ms \in 0..MaxStart :
           /\ pending_start_time_ms' = start_ms
           /\ current_scene_end_time_ms' = end_of(start_ms)
    /\ media' = media + 1
    /\ media_parsed' = FALSE
    /\ vlc_state' = "Opening"
    /\ length_posted' = FALSE
    /\ UNCHANGED <<vlc_events, seeks>>
    /\ UNCHANGED besidesPlayer

\* VLC starts to play: MediaPlayerPlaying, _handle_state_changed posts
\* onStateChanged with the state read then.
VlcPlaying ==
    /\ vlc_state = "Opening"
    /\ vlc_state' = "Playing"
    /\ vlc_events' = Append(vlc_events, [slot |-> "onStateChanged", value |-> "Playing",
                                         media |-> media])
    /\ UNCHANGED <<media, length_posted, media_parsed, pending_start_time_ms,
                   current_scene_end_time_ms, seeks>>
    /\ UNCHANGED besidesPlayer

\* VLC learns the length of the media: MediaPlayerLengthChanged,
\* _handle_length_changed posts onDurationChanged.
VlcLengthChanged ==
    /\ vlc_state \in {"Opening", "Playing"}
    /\ ~length_posted
    /\ length_posted' = TRUE
    /\ vlc_events' = Append(vlc_events, [slot |-> "onDurationChanged", value |-> "",
                                         media |-> media])
    /\ UNCHANGED <<media, vlc_state, media_parsed, pending_start_time_ms,
                   current_scene_end_time_ms, seeks>>
    /\ UNCHANGED besidesPlayer

\* media_state_changed(state_value)
media_state_changed(state) ==
    /\ IF state = "Playing" /\ pending_start_time_ms >= 0 /\ media_parsed
       THEN /\ seeks' = set_position(pending_start_time_ms)
            /\ pending_start_time_ms' = -1
       ELSE UNCHANGED <<seeks, pending_start_time_ms>>
    /\ UNCHANGED media_parsed

\* duration_changed(duration_ms)
duration_changed ==
    /\ media_parsed' = TRUE
    /\ IF is_playing /\ pending_start_time_ms >= 0
       THEN /\ seeks' = set_position(pending_start_time_ms)
            /\ pending_start_time_ms' = -1
       ELSE UNCHANGED <<seeks, pending_start_time_ms>>

\* The GUI thread runs the slot posted first.
DeliverStateChanged ==
    /\ vlc_events # << >>
    /\ Head(vlc_events).slot = "onStateChanged"
    /\ media_state_changed(Head(vlc_events).value)
    /\ vlc_events' = Tail(vlc_events)
    /\ UNCHANGED <<media, vlc_state, length_posted, current_scene_end_time_ms>>
    /\ UNCHANGED besidesPlayer

DeliverDurationChanged ==
    /\ vlc_events # << >>
    /\ Head(vlc_events).slot = "onDurationChanged"
    /\ duration_changed
    /\ vlc_events' = Tail(vlc_events)
    /\ UNCHANGED <<media, vlc_state, length_posted, current_scene_end_time_ms>>
    /\ UNCHANGED besidesPlayer

NextPlayer ==
    \/ LoadVideoAndPlay
    \/ VlcPlaying
    \/ VlcLengthChanged
    \/ DeliverStateChanged
    \/ DeliverDurationChanged

SpecPlayer == InitPlayer /\ [][NextPlayer]_vars

\* ------------------------------------------------- EditablePandasModel

\* The columns of the frame: 'id' and one column that can be edited.
ModelColumns == {"id", "value"}

\* The frame that the API returns: the records by id, the column at 0.
fetched_frame(n) == [r \in 1..n |-> [id |-> r, value |-> 0]]

cell(record, colname) == IF colname = "id" THEN record.id ELSE record.value

\* The place of a row in the sorted frame: sort_values(kind='mergesort') keeps
\* rows of equal key in their order, ascending or not.
sorted_position(frame, k, colname, ascending) ==
    Cardinality({m \in 1..Len(frame) :
        \/ IF ascending
           THEN cell(frame[m], colname) < cell(frame[k], colname)
           ELSE cell(frame[m], colname) > cell(frame[k], colname)
        \/ cell(frame[m], colname) = cell(frame[k], colname) /\ m < k}) + 1

\* self._data.sort_values(by=colname, ascending=ascending, inplace=True)
sort_values(frame, colname, ascending) ==
    [p \in 1..Len(frame) |->
        frame[CHOOSE k \in 1..Len(frame) : sorted_position(frame, k, colname, ascending) = p]]

\* get_modified_rows(): self._data.iloc[list(self._modified_rows)], as the set
\* of the ids of its records
get_modified_rows == {table_data[row + 1].id : row \in modified_rows}

InitModel ==
    /\ OnlyDesktop
    /\ DesktopIdle

\* update_data(new_data)
UpdateData ==
    /\ \E n \in 1..MaxRecords : 
           /\ table_data' = fetched_frame(n)
           /\ original_data' = fetched_frame(n)
    /\ modified_rows' = {}
    /\ changed_ids' = {}
    /\ UNCHANGED besidesModel

\* setData(index, value, Qt.EditRole): False for the id column and for a value
\* that is the one of the cell.
SetData ==
    /\ \E row \in 0..(Len(table_data) - 1), colname \in ModelColumns, value \in 0..MaxValue :
           IF colname # "id" /\ table_data[row + 1].value # value
           THEN /\ table_data' = [table_data EXCEPT ![row + 1].value = value]
                /\ modified_rows' = modified_rows \cup {row}
                /\ changed_ids' = changed_ids \cup {table_data[row + 1].id}
           ELSE UNCHANGED <<table_data, modified_rows, changed_ids>>
    /\ UNCHANGED original_data
    /\ UNCHANGED besidesModel

\* sort(column, order)
SortModel ==
    /\ \E colname \in ModelColumns, ascending \in BOOLEAN :
           table_data' = sort_values(table_data, colname, ascending)
    /\ UNCHANGED <<original_data, modified_rows, changed_ids>>
    /\ UNCHANGED besidesModel

\* reset_changes()
ResetChanges ==
    /\ modified_rows # {}
    /\ table_data' = original_data
    /\ modified_rows' = {}
    /\ changed_ids' = {}
    /\ UNCHANGED original_data
    /\ UNCHANGED besidesModel

\* save_changes(), at the end of _save_changes
SaveChanges ==
    /\ modified_rows # {}
    /\ original_data' = table_data
    /\ modified_rows' = {}
    /\ changed_ids' = {}
    /\ UNCHANGED table_data
    /\ UNCHANGED besidesModel

NextModel ==
    \/ UpdateData
    \/ SetData
    \/ SortModel
    \/ ResetChanges
    \/ SaveChanges

SpecModel == InitModel /\ [][NextModel]_vars

\* ------------------------------------- delete_scenes (POST /api/scenes/delete)

\* An element of scene_pks as request.json gives it: a number (whole, or
\* whole + 0.5), a string (the digits of a number, or other text) or null.
JsonNumber(whole, half) == [kind |-> "num", whole |-> whole, half |-> half]

JsonString(digits) == [kind |-> "str", whole |-> digits, half |-> FALSE]

JsonText == [kind |-> "text", whole |-> 0, half |-> FALSE]

JsonNull == [kind |-> "null", whole |-> 0, half |-> FALSE]

JsonPks ==
    { JsonNumber(n, half) : n \in RequestIds, half \in BOOLEAN }
    \cup { JsonString(n) : n \in RequestIds }
    \cup { JsonText, JsonNull }

\* int(pk): a float is cut to its whole part, the digits of a string are read,
\* other text raises ValueError and None raises TypeError.
int(pk) ==
    CASE pk.kind = "num" -> [raises |-> "none", value |-> pk.whole]
      [] pk.kind = "str" -> [raises |-> "none", value |-> pk.whole]
      [] pk.kind = "text" -> [raises |-> "ValueError", value |-> 0]
      [] OTHER -> [raises |-> "TypeError", value |-> 0]

\* safe_pks = [int(pk) for pk in scene_pks]: the exception of the first
\* element that raises one, or "none".
safe_pks_raises(scene_pks) ==
    IF \E k \in 1..Len(scene_pks) : int(scene_pks[k]).raises # "none"
    THEN int(scene_pks[CHOOSE k \in 1..Len(scene_pks) :
                 /\ int(scene_pks[k]).raises # "none"
                 /\ \A m \in 1..(k - 1) : int(scene_pks[m]).raises = "none"]).raises
    ELSE "none"

safe_pks_of(scene_pks) == [k \in 1..Len(scene_pks) |-> int(scene_pks[k]).value]

\* DELETE FROM scenes WHERE id IN (safe_pks), committed; the connection does
\* not turn foreign keys on, so no other table follows.
delete_scene_query(d, safe_pks) ==
    [d EXCEPT !.scenes = [id \in (DOMAIN d.scenes) \ Range(safe_pks) |-> d.scenes[id]]]

Deleted(deleted_count) == [status |-> 200, body |-> "success", deleted_count |-> deleted_count]

DeleteRequests ==
    { Request("delete", "ok", pks, "") : pks \in SeqsUpTo(JsonPks, MaxPks) }
    \cup { Request("delete", "no_scene_pks", << >>, ""),
           Request("delete", "not_list", << >>, "") }

InitDelete ==
    /\ OnlyDesktop
    /\ DesktopIdle

\* POST /api/scenes/delete; sqlite_error: the connection, the statement or the
\* commit raises sqlite3.Error and the transaction is rolled back.
DeleteScenesRequest ==
    \E req \in DeleteRequests, sqlite_error \in BOOLEAN :
        /\ pc = "idle"
        /\ request' = req
        /\ pc' = "done"
        /\ IF req.shape = "no_scene_pks" \/ req.shape = "not_list" \/ req.scene_pks = << >>
           THEN response' = Error(400) /\ UNCHANGED db
           ELSE IF safe_pks_raises(req.scene_pks) = "ValueError"
           THEN response' = Error(400) /\ UNCHANGED db
           ELSE IF safe_pks_raises(req.scene_pks) = "TypeError" \/ sqlite_error
           THEN response' = Error(500) /\ UNCHANGED db
           ELSE LET safe_pks == safe_pks_of(req.scene_pks)
                IN  /\ db' = delete_scene_query(db, safe_pks)
                    /\ response' = Deleted(Cardinality(DOMAIN db.scenes \cap Range(safe_pks)))
        /\ UNCHANGED <<scenes, transcriptions, i, record_start_seconds, scene_record_times,
                       edl_content, j, srt_content, handlers, call, parserVars, desktopVars>>

\* The server waits for the next request.
DeleteScenesNext ==
    /\ pc = "done"
    /\ pc' = "idle"
    /\ request' = NoRequest
    /\ response' = NoResponse
    /\ UNCHANGED <<db, scenes, transcriptions, i, record_start_seconds, scene_record_times,
                   edl_content, j, srt_content, handlers, call, parserVars, desktopVars>>

NextDelete ==
    \/ DeleteScenesRequest
    \/ DeleteScenesNext

SpecDelete == InitDelete /\ [][NextDelete]_vars

\* ------------------------------------------------------------------ claims

\* The scenes export_combined is serving have been laid out by its loop.
InCombined == request.endpoint = "combined"

Events == 1..Len(edl_content)

Cues == 1..Len(srt_content)

\* C1: the record timeline of export_combined is gapless and non-overlapping:
\* the first scene's record_in is 0, every later scene's record_in is the
\* previous scene's record_out, each record_out is record_in plus the scene's
\* final duration max(0, adjusted_end - adjusted_start), and the cursor stands
\* at the last record_out.
C1_RecordTimelineGapless ==
    InCombined =>
        /\ \A k \in Events :
              /\ edl_content[k].record_in_sec =
                     (IF k = 1 THEN Zero ELSE edl_content[k - 1].record_out_sec)
              /\ edl_content[k].record_out_sec =
                     TAdd(edl_content[k].record_in_sec,
                          TMax(Zero, TSub(edl_content[k].adjusted_end_sec,
                                          edl_content[k].adjusted_start_sec)))
              /\ TLe(edl_content[k].record_in_sec, edl_content[k].record_out_sec)
              /\ scene_record_times[k].record_in = edl_content[k].record_in_sec
              /\ scene_record_times[k].record_out = edl_content[k].record_out_sec
        /\ record_start_seconds =
               (IF edl_content = << >> THEN Zero
                ELSE edl_content[Len(edl_content)].record_out_sec)

\* Two scenes of positive duration have been laid out and the EDL returned.
C1_Witness ==
    /\ InCombined
    /\ pc = "done"
    /\ response.body = "edl"
    /\ Len(edl_content) = 2
    /\ TLt(Zero, edl_content[1].source_duration_sec)
    /\ TLt(edl_content[2].record_in_sec, edl_content[2].record_out_sec)

\* C2: every scene's final duration, the amount the record cursor advances
\* by, is at least one frame (1/60 s).
C2_MinimumDuration ==
    InCombined =>
        \A k \in Events : TLe(min_duration, edl_content[k].source_duration_sec)

\* C3: adjusted_end >= adjusted_start for every scene, so that no event has
\* its source OUT point before its source IN point.
C3_EndNotBeforeStart ==
    InCombined =>
        \A k \in Events :
            TLe(edl_content[k].adjusted_start_sec, edl_content[k].adjusted_end_sec)

\* C4: when the video's duration is known, the final adjusted_end of every
\* scene is at most clip_end = offset + duration, within epsilon; also when
\* the minimum-duration step has moved it.
C4_EndWithinClip ==
    InCombined =>
        \A k \in Events :
            edl_content[k].clip_known =>
                TLe(edl_content[k].adjusted_end_sec,
                    TAdd(edl_content[k].clip_end_sec, epsilon))

\* Start 10 s, end 20 s, offset 0, duration 15 s: the adjusted end is 15 s.
C4_Witness ==
    /\ InCombined
    /\ \E k \in Events :
          /\ edl_content[k].clip_known
          /\ edl_content[k].source_start_sec = Sec(10, 0)
          /\ edl_content[k].adjusted_start_sec = Sec(10, 0)
          /\ db.scenes[edl_content[k].scene_pk].end_timecode = Tc(0, 0, 20, 0)
          /\ edl_content[k].clip_end_sec = Sec(15, 0)
          /\ edl_content[k].adjusted_end_sec = Sec(15, 0)

\* C5: for a scene whose adjusted end lies within epsilon of clip_end, the
\* source OUT timecode, converted back to seconds at 60 fps, is not greater
\* than clip_end.
C5_OutTimecodeWithinClip ==
    InCombined =>
        \A k \in Events :
            (/\ edl_content[k].clip_known
             /\ TLt(TAbs(TSub(edl_content[k].adjusted_end_sec,
                              edl_content[k].clip_end_sec)), epsilon))
            => TLe(timecode_to_seconds(edl_content[k].source_out_tc, edl_frame_rate),
                   edl_content[k].clip_end_sec)

\* C6: every SRT cue lies in its parent scene's record range, record_in <=
\* cue_start <= cue_end <= record_out, the cue before clipping being the
\* scene's record_in plus the transcript time minus the scene's source start
\* before the offset.
C6_CueWithinScene ==
    InCombined =>
        \A c \in Cues :
            LET cue   == srt_content[c]
                trans == db.transcriptions[cue.trans_id]
                start == timecode_to_seconds(db.scenes[cue.scene_pk].start_timecode,
                                             source_frame_rate)
            IN  /\ trans.scene_id = cue.scene_pk
                /\ \E k \in Events :
                      /\ edl_content[k].scene_pk = cue.scene_pk
                      /\ edl_content[k].record_in_sec = cue.record_in
                      /\ edl_content[k].record_out_sec = cue.record_out
                /\ cue.raw_start =
                       TAdd(cue.record_in,
                            TSub(timecode_to_seconds(trans.start_timecode,
                                                     source_frame_rate), start))
                /\ cue.raw_end =
                       TAdd(cue.record_in,
                            TSub(timecode_to_seconds(trans.end_timecode,
                                                     source_frame_rate), start))
                /\ TLe(cue.record_in, cue.start)
                /\ TLe(cue.start, cue.end)
                /\ TLe(cue.end, cue.record_out)

\* An SRT document with a cue that began before its scene and a cue that
\* ended after it.
C6_Witness ==
    /\ InCombined
    /\ pc = "done"
    /\ response.body = "srt"
    /\ \E c \in Cues : TLt(srt_content[c].raw_start, srt_content[c].record_in)
    /\ \E c \in Cues : TLt(srt_content[c].record_out, srt_content[c].raw_end)

\* C7: every SRT cue lasts at least one frame (1/60 s, up to epsilon).
C7_CueMinimumDuration ==
    InCombined =>
        \A c \in Cues :
            TLe(TSub(min_srt_duration, epsilon),
                TSub(srt_content[c].end, srt_content[c].start))

\* The ids of scene_pks that name a scene, each once, in the order of their
\* first occurrence.
RECURSIVE SelectionOrder(_, _)
SelectionOrder(pks, seen) ==
    IF pks = << >> THEN << >>
    ELSE IF Head(pks) \in seen \/ Head(pks) \notin DOMAIN db.scenes
    THEN SelectionOrder(Tail(pks), seen)
    ELSE <<Head(pks)>> \o SelectionOrder(Tail(pks), seen \cup {Head(pks)})

\* C8: export_combined lays the scenes out in the order of their ids in the
\* request's scene_pks, whatever the order of the rows in the database or
\* of (video_id, scene_id), and numbers the events 001..n in that order.
C8_SelectionOrder ==
    InCombined =>
        LET order == SelectionOrder(request.scene_pks, {})
        IN  /\ Len(edl_content) <= Len(order)
            /\ \A k \in Events :
                  /\ edl_content[k].scene_pk = order[k]
                  /\ edl_content[k].event_num = k
                  /\ scene_record_times[k].scene_pk = order[k]
            /\ (pc = "done" /\ response.status = 200)
                  => Len(edl_content) = Len(order)

\* An EDL of two events whose order is not the order of the ids.
C8_Witness ==
    /\ InCombined
    /\ pc = "done"
    /\ response.body = "edl"
    /\ Len(request.scene_pks) = 2
    /\ request.scene_pks[1] > request.scene_pks[2]
    /\ Len(edl_content) = 2
    /\ edl_content[1].scene_pk = request.scene_pks[1]

\* C9: an EDL export of scenes, whatever their start timecode, end timecode
\* and offset hold, is answered with the EDL and one event per scene found.
C9_BadTimecodeNeverFails ==
    (/\ InCombined
     /\ pc = "done"
     /\ request.shape = "ok"
     /\ request.format = "EDL"
     /\ SelectionOrder(request.scene_pks, {}) # << >>)
    => /\ response = [status |-> 200, body |-> "edl"]
       /\ Len(edl_content) = Len(SelectionOrder(request.scene_pks, {}))

\* C10: POST /api/export/edl with a non-empty list of ids that all exist is
\* answered with an EDL of one event per selected scene.
C10_EdlOneEventPerScene ==
    (/\ request.endpoint = "edl"
     /\ pc = "done"
     /\ request.shape = "ok"
     /\ request.scene_pks # << >>
     /\ Range(request.scene_pks) \subseteq DOMAIN db.scenes)
    => /\ response = [status |-> 200, body |-> "edl"]
       /\ Len(edl_content) = Cardinality(Range(request.scene_pks))

\* ------------------------------------------- the conversions on their own

\* A call of f has returned or raised.
Called(f) == call.function = f

\* C12: for a frame rate of 30 or 60 and any non-negative integer fields
\* h, m, s, f with f below the frame rate, seconds_to_timecode(
\* timecode_to_seconds("H:M:S:F", fr), fr) is the same timecode.
C12_RoundTrip ==
    Called("round_trip") => call.outcome = Returned(call.timecode)

\* C12, for the fields of a clock: with minutes and seconds below 60 too,
\* the round trip returns the same timecode.
C12_RoundTripOfClockFields ==
    (/\ Called("round_trip")
     /\ call.timecode.m < 60
     /\ call.timecode.s < 60)
    => call.outcome = Returned(call.timecode)

\* 01:59:59:29 at 30 fps has come back unchanged.
C12_Witness ==
    /\ Called("round_trip")
    /\ call.timecode = Tc(1, 59, 59, 29)
    /\ call.frame_rate = FrameRate(30, 1)
    /\ call.outcome = Returned(Tc(1, 59, 59, 29))

\* C13: for a non-negative number of seconds and a positive frame rate the
\* frame field FF of seconds_to_timecode's result is at least 0 and below
\* the frame rate.
C13_FrameFieldBelowRate ==
    (/\ Called("seconds_to_timecode")
     /\ call.total_seconds.kind = "num"
     /\ TLe(Zero, call.total_seconds.value))
    => /\ ~call.outcome.raised
       /\ 0 <= call.outcome.value.f
       /\ call.outcome.value.f * call.frame_rate.den < call.frame_rate.num

\* A timecode with a frame field above 0 at 29.97 fps, and the zero timecode
\* of a frame rate below 1.
C13_Witness ==
    /\ Called("seconds_to_timecode")
    /\ call.total_seconds.kind = "num"
    /\ \/ call.frame_rate = FrameRate(2997, 100) /\ call.outcome.value.f > 0
       \/ /\ call.frame_rate = FrameRate(1, 2)
          /\ TLt(Zero, call.total_seconds.value)
          /\ call.outcome = Returned(Tc(0, 0, 0, 0))

\* C14: the three converters of app.py return their zero default and do not
\* raise: timecode_to_seconds for a wrong field count, a non-integer field,
\* an empty string or None; seconds_to_timecode and seconds_to_srt_timecode
\* for a negative number, None or a value that is no number.
C14_ZeroDefaults ==
    /\ (Called("timecode_to_seconds")
        /\ call.timecode.kind \in {"fields", "nonint", "empty", "none"})
       => call.outcome = Returned(Zero)
    /\ (Called("seconds_to_timecode")
        /\ (call.total_seconds.kind # "num" \/ TLt(call.total_seconds.value, Zero)))
       => call.outcome = Returned(Tc(0, 0, 0, 0))
    /\ (Called("seconds_to_srt_timecode")
        /\ (call.total_seconds.kind # "num" \/ TLt(call.total_seconds.value, Zero)))
       => call.outcome = Returned(SrtTc(0, 0, 0, 0))

\* seconds_to_srt_timecode has been given a string.
C14_Witness ==
    /\ Called("seconds_to_srt_timecode")
    /\ call.total_seconds = PyStr
    /\ call.outcome = Returned(SrtTc(0, 0, 0, 0))

\* C15: every timecode conversion function of the repository returns a
\* value and does not raise on malformed input: a wrong field count, a
\* non-integer field, None, a value that is no number.
C15_EveryConverterDefaults ==
    (/\ call.function # "none"
     /\ \/ call.timecode.kind \in {"fields", "nonint"}
        \/ call.total_seconds.kind = "str"
        \/ call.timecode.kind = "none" /\ call.total_seconds.kind = "none")
    => ~call.outcome.raised

\* The time an SRT timecode text stands for.
SrtValue(tc) ==
    TAdd(Sec(tc.h * 3600 + tc.m * 60 + tc.s, 0),
         T((tc.ms * 6) \div 100, ((tc.ms * 6) % 100) * (Ticks \div 100)))

\* C16: for a non-negative number of seconds, the millisecond field of
\* seconds_to_srt_timecode's result has three digits, a value in 0..999,
\* and the text stands for the input rounded to the nearest millisecond.
C16_SrtMilliseconds ==
    (/\ Called("seconds_to_srt_timecode")
     /\ call.total_seconds.kind = "num"
     /\ TLe(Zero, call.total_seconds.value))
    => /\ ~call.outcome.raised
       /\ call.outcome.value.ms \in 0..999
       /\ TLe(TAbs(TSub(SrtValue(call.outcome.value), call.total_seconds.value)),
              T(0, 3 * (Ticks \div 100)))

\* ----------------------------------------------------------- the GPMF parser

\* The block that starts at p: its tag, its declared size, the place of its
\* payload and the first multiple of 4 at or after the payload's end.
TagAt(d, p) == Slice(d, p, 4)

SizeAt(d, p) == unpack_I(Slice(d, p + 4, 4))

PayloadAt(p) == p + 8

BlockEnd(d, p) == align(PayloadAt(p) + SizeAt(d, p))

\* The buffer from p on is made of complete blocks.
RECURSIVE CompleteBlocks(_, _)
CompleteBlocks(d, p) ==
    \/ p = Len(d)
    \/ /\ p + 8 <= Len(d)
       /\ BlockEnd(d, p) <= Len(d)
       /\ CompleteBlocks(d, BlockEnd(d, p))

\* Every GPS5 block from p on declares a positive multiple of 20 bytes.
RECURSIVE WholeRecordsOnly(_, _)
WholeRecordsOnly(d, p) ==
    \/ p >= Len(d)
    \/ /\ TagAt(d, p) = GPS5 => (SizeAt(d, p) > 0 /\ SizeAt(d, p) % 20 = 0)
       /\ WholeRecordsOnly(d, BlockEnd(d, p))

\* The IEEE 754 single whose big-endian bytes start at p, from its two
\* 16-bit halves.
SingleAt(d, p) ==
    LET high == d[p + 1] * 256 + d[p + 2]
        low  == d[p + 3] * 256 + d[p + 4]
    IN  [sign     |-> high \div 32768,
         exponent |-> (high \div 128) % 256,
         fraction |-> (high % 128) * 65536 + low]

\* The n records of 20 bytes from p on, as fixes.
RecordsAt(d, p, n) ==
    [k \in 1..n |->
        LET at == p + 20 * (k - 1)
        IN  [latitude  |-> SingleAt(d, at),
             longitude |-> SingleAt(d, at + 4),
             altitude  |-> SingleAt(d, at + 8),
             speed     |-> SingleAt(d, at + 12),
             speed3d   |-> SingleAt(d, at + 16)]]

\* The records of every GPS5 block from p on, in the order of the file.
RECURSIVE RecordsOfBlocks(_, _)
RecordsOfBlocks(d, p) ==
    IF p >= Len(d) THEN << >>
    ELSE (IF TagAt(d, p) = GPS5
          THEN RecordsAt(d, PayloadAt(p), SizeAt(d, p) \div 20)
          ELSE << >>)
         \o RecordsOfBlocks(d, BlockEnd(d, p))

\* C17: for a buffer of consecutive complete blocks (here with every GPS5
\* block of a positive multiple of 20 bytes), parse_gps_data skips each
\* block of another tag by its declared size, whatever the size from 0 up,
\* and returns the records of every GPS5 block in the order of the file.
C17_EveryGps5BlockReturned ==
    (/\ parser_pc = "returned"
     /\ CompleteBlocks(data, 0)
     /\ WholeRecordsOnly(data, 0))
    => gps_data = RecordsOfBlocks(data, 0)

\* The pass that starts at a GPS5 header.
AtGps5Block ==
    /\ parser_pc = "parsing"
    /\ position + 8 <= Len(data)
    /\ TagAt(data, position) = GPS5

\* C18: a GPS5 block that declares 20 * n bytes appends min(n, bytes left in
\* the buffer \div 20) fixes, in the order of the payload, each made of five
\* big-endian singles in the order latitude, longitude, altitude, speed,
\* speed3d; a block of 40 bytes that is all there appends 2.
C18_Gps5BlockPoints ==
    [][ (AtGps5Block /\ SizeAt(data, position) % 20 = 0)
        => LET n    == SizeAt(data, position) \div 20
               left == (Len(data) - PayloadAt(position)) \div 20
           IN  gps_data' = gps_data \o RecordsAt(data, PayloadAt(position),
                                                IF n < left THEN n ELSE left) ]_vars

\* The buffer of one GPS5 block of 40 bytes has given its two fixes, the
\* first with latitude 35.5 = 2^5 * (1 + 917504 / 2^23).
C18_Witness ==
    /\ parser_pc = "returned"
    /\ data = Block(GPS5, 40, RecordA \o RecordB)
    /\ Len(gps_data) = 2
    /\ gps_data[1].latitude = [sign |-> 0, exponent |-> 132, fraction |-> 917504]
    /\ gps_data[2].latitude.sign = 1

\* C19: after a GPS5 block whose declared size is odd and which is all
\* there, the next tag is read at the first multiple of 4 at or after the
\* end of the declared payload.
C19_OddGps5BlockAligned ==
    [][ (/\ AtGps5Block
         /\ SizeAt(data, position) % 2 = 1
         /\ BlockEnd(data, position) <= Len(data))
        => position' = BlockEnd(data, position) ]_vars

\* C20: with fewer than 8 bytes left for a header, parse_gps_data returns,
\* raises nothing, and gps_data holds the fixes it had.
C20_TruncatedHeaderReturns ==
    [][ (/\ parser_pc = "parsing"
         /\ position < Len(data)
         /\ Len(data) - position < 8)
        => (parser_pc' = "returned" /\ gps_data' = gps_data) ]_vars

\* A block of one record followed by 5 bytes of a header has been parsed:
\* the one fix is returned.
C20_Witness ==
    /\ parser_pc = "returned"
    /\ data = Block(GPS5, 20, RecordA) \o <<71, 80, 83, 53, 0>>
    /\ position = 32
    /\ Len(gps_data) = 1

\* The next statement of a handler that runs with no other request in the
\* server: the cursor it reads is its own.
alone_step(d, h) ==
    CASE h.pc = "idle" /\ h.request.endpoint = "combined" -> export_combined_begin(d, h)
      [] h.pc = "idle" /\ h.request.endpoint = "srt" -> export_srt_begin(d, h)
      [] h.pc = "combined_scenes" /\ h.i < Len(h.scenes) ->
            export_combined_scene(h, h.record_start_seconds)
      [] h.pc = "combined_scenes" /\ h.i = Len(h.scenes) /\ h.request.format = "EDL" ->
            Returns(h, [status |-> 200, body |-> "edl"])
      [] h.pc = "combined_scenes" /\ h.i = Len(h.scenes) /\ h.request.format = "SRT"
            /\ h.j < Len(h.scene_record_times) -> export_combined_srt_scene(h)
      [] h.pc = "combined_scenes" /\ h.i = Len(h.scenes) /\ h.request.format = "SRT"
            /\ h.j = Len(h.scene_record_times) ->
            Returns(h, [status |-> 200, body |-> "srt"])
      [] h.pc = "srt_scenes" /\ h.i < Len(h.scenes) ->
            export_srt_scene(h, h.record_start_seconds)
      [] h.pc = "srt_scenes" /\ h.i = Len(h.scenes) -> export_srt_cues(h)

RECURSIVE RunToReturn(_, _)
RunToReturn(d, h) == IF h.pc = "done" THEN h ELSE RunToReturn(d, alone_step(d, h))

\* The locals at the return of the handler that serves req alone on d.
RunAlone(d, req) == RunToReturn(d, Frame(req))

\* What the client receives: the status, and the document of a 200.
ResponseOf(h) ==
    [status |-> h.response.status,
     body   |-> h.response.body,
     edl    |-> IF h.response.body = "edl" THEN h.edl_content ELSE << >>,
     srt    |-> IF h.response.body = "srt" THEN h.srt_content ELSE << >>]

\* C11: whatever the interleaving of the statements of two export requests
\* (export_combined or export_srt) served at once, the response of each, when
\* it returns, is the response of the same request served alone on the same
\* database.
C11_ResponseAsAlone ==
    \A p \in DOMAIN handlers :
        handlers[p].pc = "done"
            => ResponseOf(handlers[p]) = ResponseOf(RunAlone(db, handlers[p].request))

\* Thread 2 has returned an EDL of two events while thread 1 is between two
\* iterations of its own scene loop, its cursor advanced.
C11_Witness ==
    /\ DOMAIN handlers = Threads
    /\ handlers[1].pc = "combined_scenes"
    /\ handlers[1].i = 1
    /\ Len(handlers[1].scenes) = 2
    /\ handlers[1].record_start_seconds # Zero
    /\ handlers[2].pc = "done"
    /\ handlers[2].response = [status |-> 200, body |-> "edl"]
    /\ Len(handlers[2].edl_content) = 2
    /\ handlers[2].request # handlers[1].request

\* C21: parse_gps_data terminates on every buffer: whenever the while
\* condition is about to be tested the position is a multiple of 4, every
\* pass of the loop either leaves the loop or ends at a greater position, and
\* the parse returns.
C21_ParseTerminates ==
    /\ [](parser_pc = "parsing" => position % 4 = 0)
    /\ [][ parser_pc = "parsing"
           => (parser_pc' # "parsing" \/ position' > position) ]_vars
    /\ <>(parser_pc = "returned")

\* The parse of a buffer of more than one block has returned after a pass
\* that moved the position by a skipped payload of 6 bytes, rounded up to 8.
C21_Witness ==
    /\ parser_pc = "returned"
    /\ data = Block(ACCL, 6, Fill(6, 9)) \o Block(GPS5, 20, RecordA)
    /\ position = 44
    /\ Len(gps_data) = 1

\* C22: after any sequence of load_scenes calls, thumbnail_items holds one
\* item per scene of the most recent call, in the order given, and nothing
\* of the calls before.
C22_ItemsOfLastCall ==
    thumbnail_items = [k \in 1..Len(load_scenes_call.scenes) |->
                          ThumbnailItem(load_scenes_call.scenes[k])]

\* load_scenes was called with 2 scenes on a grid that held 4 items: the
\* grid holds 2 items.
C22_Witness ==
    /\ load_scenes_call.items_before = 4
    /\ load_scenes_call.scenes = <<3, 1>>
    /\ Len(thumbnail_items) = 2

\* C23: during a continuous play the scenes are started in list order and
\* none is skipped: the indexes given to the player since the play began are
\* 0, 1, 2, ... whatever the interleaving of the stop timer's timeout and of
\* VLC's end-reached callback.
C23_StartedInListOrder ==
    \A k \in 1..Len(started) : started[k] = k - 1

\* C24: _play_scene_by_index never reads continuous_play_list at an index
\* that the list does not have.
C24_NoReadOutOfRange ==
    gui_thread.pc # "IndexError"

\* The scene at the last index of the list has finished: stopped by the
\* timer or ended with its media.
LastSceneFinished ==
    /\ continuous_play_list # << >>
    /\ continuous_play_index = Len(continuous_play_list) - 1
    /\ started = [k \in 1..Len(continuous_play_list) |-> k - 1]
    /\ mediaplayer.scene = continuous_play_list[Len(continuous_play_list)]
    /\ mediaplayer.state \in {"stopped", "ended"}

\* C25: once the last scene of a continuous play has finished, the
\* continuous play state is eventually reset: the list is empty and the
\* index is 0.
C25_EventuallyReset ==
    LastSceneFinished ~> (continuous_play_list = << >> /\ continuous_play_index = 0)

\* C26: in video_preview_app, after play_selected_sequentially and
\* play_next_in_playlist in any order, either playback_playlist is None and
\* current_playlist_index is -1, or the playlist is not empty and
\* 0 <= current_playlist_index < len(playback_playlist).
C26_PlaylistIndexInRange ==
    \/ /\ playback_playlist.is_none
       /\ current_playlist_index = -1
    \/ /\ ~playback_playlist.is_none
       /\ Len(playback_playlist.items) > 0
       /\ 0 <= current_playlist_index
       /\ current_playlist_index < Len(playback_playlist.items)

\* A playlist of two scenes was played to its end and reset.
C26_Witness ==
    /\ playback_playlist.is_none
    /\ current_playlist_index = -1
    /\ last_slot = "play_next_in_playlist"
    /\ finished_queue = 0
    /\ ~player_playing

\* C27: the scene that play_selected_sequentially and play_next_in_playlist
\* load into the player is playback_playlist[current_playlist_index]['data'],
\* also when rows of the table were sorted or deleted in between.
C27_LoadsPlaylistScene ==
    (/\ last_slot \in {"play_selected_sequentially", "play_next_in_playlist"}
     /\ ~playback_playlist.is_none)
        => current_scene = playback_playlist.items[current_playlist_index + 1].data

\* The seeks applied to the media loaded last.
SeeksOfMedia == SelectSeq(seeks, LAMBDA s : s.media = media)

\* Both events of the media loaded last have been delivered.
BothDelivered ==
    /\ media > 0
    /\ vlc_state = "Playing"
    /\ length_posted
    /\ \A k \in 1..Len(vlc_events) : vlc_events[k].media # media

\* C28: after load_video, set_playback_range(start >= 0, end) and play, the
\* seek to start is applied only when the media plays and its length is known,
\* never twice, and once both events are delivered it has been applied and
\* pending_start_time_ms is -1.
C28_SeekOnceWhenBothKnown ==
    /\ \A k \in 1..Len(seeks) : seeks[k].playing /\ seeks[k].length_known
    /\ Len(SeeksOfMedia) <= 1
    /\ BothDelivered =>
           /\ Len(SeeksOfMedia) = 1
           /\ SeeksOfMedia[1].position + 1 = current_scene_end_time_ms
           /\ pending_start_time_ms = -1

\* C29: whatever setData and sort calls were made, get_modified_rows()
\* returns the records, by id, that setData changed since the last
\* update_data, save_changes or reset_changes.
C29_ModifiedRowsAreTheChanged == get_modified_rows = changed_ids

\* The id is in scene_pks: as the number itself or as its digits.
InScenePks(id, scene_pks) ==
    \E k \in 1..Len(scene_pks) :
        /\ scene_pks[k].kind \in {"num", "str"}
        /\ scene_pks[k].whole = id
        /\ ~scene_pks[k].half

\* C30: when POST /api/scenes/delete answers with an error no row of scenes
\* has been deleted; when it succeeds only rows whose id is in scene_pks are
\* deleted, the rows kept are as they were and transcriptions is unchanged.
C30_DeleteOnlyNamedScenes ==
    [][ (pc = "idle" /\ pc' = "done" /\ request'.endpoint = "delete") =>
            /\ response'.status # 200 => db' = db
            /\ response'.status = 200 =>
                   /\ db'.transcriptions = db.transcriptions
                   /\ db'.videos = db.videos
                   /\ DOMAIN db'.scenes \subseteq DOMAIN db.scenes
                   /\ \A id \in DOMAIN db'.scenes : db'.scenes[id] = db.scenes[id]
                   /\ \A id \in (DOMAIN db.scenes) \ (DOMAIN db'.scenes) :
                          InScenePks(id, request'.scene_pks) ]_vars

====
